---- MODULE Spec2Model ----
(***************************************************************************)
(* Model of noorm's statement/parameter resolution and of the SQLite       *)
(* placeholder expansion (noorm/_db_api_2.py, noorm/_sqlite_common.py,     *)
(* noorm/sqlite3/_sqlite3.py).                                             *)
(*                                                                         *)
(* Text is modelled character by character: a Python str is a sequence of  *)
(* one-character strings.  A Python value is a record                      *)
(*   [t |-> type name, n |-> integer payload, s |-> text payload,          *)
(*    e |-> elements of a container].                                      *)
(***************************************************************************)
EXTENDS Integers, Sequences, FiniteSets, TLC

VARIABLES
    mode,           \* which decorator wraps the query function
    default_sql,    \* the decorator's `sql` argument (PyNone when absent)
    fn,             \* what the query function does when it is invoked
    f_args,         \* positional call arguments of the decorated call
    f_kwargs,       \* keyword call arguments of the decorated call (ordered)
    pc,             \* position inside wrapper.__call__
    sql_n_params,   \* value returned by req_sql_n_params
    sql_and_params, \* value returned by sqlite_sql_n_params
    func_calls,     \* number of invocations of the query function
    execute_calls,  \* number of driver execute() invocations
    driver,         \* what the driver will do when execute() is called
    rows,           \* number of rows the driver produced
    outcome,        \* what the caller of the decorated function observes
    codec,          \* a value on its way through _encode_val and a decoder
    _conns,         \* set_default_db._conns
    blocks,         \* the enclosing scopes: the module, then the open
                    \* `with set_default_db(...)` blocks, each with the
                    \* connection last set in it
    db_call,        \* the last call of a default_db-decorated function
    no_commit,      \* the SQLAlchemy decorator's no_commit argument
    commits,        \* number of session.commit() invocations
    stat_by_name,   \* Registry.stat_by_name of the main process
    _event_listeners, \* Registry._event_listeners of the main process
    delivered,      \* what each listener has been called with, in order
    environ,        \* os.environ["NOORM_REGISTRY_PORT"] (0 when absent)
    _mp_listener_started, \* Registry._mp_listener_started of the main process
    _mp_socket,     \* datagrams sent to the main process, not yet received
    threads,        \* main process: position of each thread inside on_event
    child,          \* the child process and its own Registry
    finished,       \* the decorated calls that finished, in order
    mc,             \* one MetricsCollector and the decorated call around it
    mp              \* main process: Registry._mp_socket and _mp_port, the
                    \* sockets it has bound and its listener threads

\* the decorated call (wrapper.__call__)
call_vars == <<mode, default_sql, fn, f_args, f_kwargs, pc, sql_n_params,
               sql_and_params, func_calls, execute_calls, driver, rows, outcome>>
codec_vars == <<codec>>
db_vars == <<_conns, blocks, db_call>>
sa_vars == <<no_commit, commits>>
reg_vars == <<stat_by_name, _event_listeners, delivered, environ,
              _mp_listener_started, _mp_socket, threads, child, finished,
              mc, mp>>

vars == <<call_vars, codec_vars, db_vars, sa_vars, reg_vars>>

(***************************************************************************)
(* Bounds of the explored inputs.                                          *)
(***************************************************************************)
MaxFrags == 3       \* lexical fragments per generated statement
MaxK == 2           \* elements per container parameter
MaxParams == 2      \* parameters per call
MaxRows == 2        \* rows produced by the driver

(***************************************************************************)
(* Python values.                                                          *)
(***************************************************************************)
PyVal(t, n, n2, s, e) == [t |-> t, n |-> n, n2 |-> n2, s |-> s, e |-> e]
PyNone == PyVal("NoneType", 0, 0, <<>>, <<>>)
PyInt(n) == PyVal("int", n, 0, <<>>, <<>>)
PyBool(b) == PyVal("bool", IF b THEN 1 ELSE 0, 0, <<>>, <<>>)
PyStr(s) == PyVal("str", 0, 0, s, <<>>)
\* date(y, m, d): n = y*10000 + m*100 + d
PyDate(ymd) == PyVal("date", ymd, 0, <<>>, <<>>)
\* naive datetime without microseconds: n as for date, n2 = h*10000 + mi*100 + s
PyDatetime(ymd, hms) == PyVal("datetime", ymd, hms, <<>>, <<>>)
\* Decimal with coefficient n >= 0 and n2 fractional digits (value n / 10^n2)
PyDecimal(coef, scale) == PyVal("Decimal", coef, scale, <<>>, <<>>)
\* an object whose type defines __conform__
PyConform == PyVal("conform", 0, 0, <<>>, <<>>)
\* list, tuple or set: a Collection that is not a Mapping
PyList(e) == PyVal("list", 0, 0, <<>>, e)
PyDict == PyVal("dict", 0, 0, <<>>, <<>>)
PyObject == PyVal("object", 0, 0, <<>>, <<>>)
PyEllipsis == PyVal("ellipsis", 0, 0, <<>>, <<>>)
\* a float with integral value n / 2 (n halves)
PyFloat(n) == PyVal("float", n, 0, <<>>, <<>>)
PyBytes(s) == PyVal("bytes", 0, 0, s, <<>>)

Min(a, b) == IF a < b THEN a ELSE b

(***************************************************************************)
(* Text helpers (str.find, str.isalnum, str(int), ", ".join).              *)
(***************************************************************************)
Letters == {"a", "b", "c", "d", "i", "s", "x"}
DigitChar == <<"0", "1", "2", "3", "4", "5", "6", "7", "8", "9">>
Digits == {DigitChar[i] : i \in 1..10}

isalnum(c) == c \in Letters \cup Digits

\* least j in from..Len(s) with s[j] = c, or 0
IndexOf(s, c, from) ==
    IF \E j \in from..Len(s) : s[j] = c
    THEN CHOOSE j \in from..Len(s) :
            s[j] = c /\ \A k \in from..(j - 1) : s[k] # c
    ELSE 0

IsAt(s, sub, p) ==
    /\ p + Len(sub) - 1 <= Len(s)
    /\ \A k \in 1..Len(sub) : s[p + k - 1] = sub[k]

\* str.find: least position where sub occurs (1-based), or 0
Find(s, sub) ==
    IF \E p \in 1..Len(s) : IsAt(s, sub, p)
    THEN CHOOSE p \in 1..Len(s) :
            IsAt(s, sub, p) /\ \A q \in 1..(p - 1) : ~IsAt(s, sub, q)
    ELSE 0

RECURSIVE IntToStr(_)
IntToStr(n) ==
    IF n < 10 THEN <<DigitChar[n + 1]>>
    ELSE IntToStr(n \div 10) \o <<DigitChar[(n % 10) + 1]>>

\* n rendered with at least w digits (format spec 0w d)
RECURSIVE ZeroPad(_, _)
ZeroPad(n, w) ==
    IF w <= 1 THEN IntToStr(n)
    ELSE ZeroPad(n \div 10, w - 1) \o <<DigitChar[(n % 10) + 1]>>

\* ", ".join(items)
RECURSIVE Join(_)
Join(items) ==
    IF Len(items) = 0 THEN <<>>
    ELSE IF Len(items) = 1 THEN items[1]
    ELSE items[1] \o <<",", " ">> \o Join(Tail(items))

(***************************************************************************)
(* Exceptions: the class, the place that raised it and what its message    *)
(* identifies (the function's name, a parameter, an element index).        *)
(***************************************************************************)
NoIdx == 0 - 1

Exc(cls, origin, func_named, param, idx) ==
    [cls |-> cls, origin |-> origin, func_named |-> func_named,
     param |-> param, idx |-> idx]

(***************************************************************************)
(* Ordered dict: a sequence of [k, v] entries with distinct keys.          *)
(***************************************************************************)
Keys(d) == {d[i].k : i \in 1..Len(d)}

DictGet(d, k) == d[CHOOSE i \in 1..Len(d) : d[i].k = k].v

\* d[k] = v: an existing key keeps its position
DictSet(d, k, v) ==
    IF k \in Keys(d)
    THEN [i \in 1..Len(d) |-> IF d[i].k = k THEN [k |-> k, v |-> v] ELSE d[i]]
    ELSE Append(d, [k |-> k, v |-> v])

(***************************************************************************)
(* noorm/_sqlite_common.py                                                 *)
(***************************************************************************)
date_isoformat(ymd) ==
    ZeroPad(ymd \div 10000, 4) \o <<"-">> \o ZeroPad((ymd \div 100) % 100, 2)
        \o <<"-">> \o ZeroPad(ymd % 100, 2)

time_isoformat(hms) ==
    ZeroPad(hms \div 10000, 2) \o <<":">> \o ZeroPad((hms \div 100) % 100, 2)
        \o <<":">> \o ZeroPad(hms % 100, 2)

\* 10^k
RECURSIVE Pow10(_)
Pow10(k) == IF k = 0 THEN 1 ELSE 10 * Pow10(k - 1)

\* str(Decimal) for a non-negative coefficient and 0..6 fractional digits
Decimal_str(coef, scale) ==
    IF scale = 0 THEN IntToStr(coef)
    ELSE IntToStr(coef \div Pow10(scale)) \o <<".">>
            \o ZeroPad(coef % Pow10(scale), scale)

\* _encode_val without the bool branch
_encode_val_bool_as_is(val) ==
    IF val.t \in {"bool", "int", "str", "NoneType", "float", "bytes", "bytearray"}
        THEN val
    ELSE IF val.t = "datetime"
        THEN PyStr(date_isoformat(val.n) \o <<" ">> \o time_isoformat(val.n2))
    ELSE IF val.t = "date" THEN PyStr(date_isoformat(val.n))
    ELSE IF val.t = "Decimal" THEN PyStr(Decimal_str(val.n, val.n2))
    ELSE IF val.t = "conform" THEN val
    ELSE PyEllipsis

_encode_val(val) ==
    IF val.t = "bool" THEN PyInt(val.n)
    ELSE IF val.t \in {"int", "str", "NoneType", "float", "bytes", "bytearray"}
        THEN val
    ELSE IF val.t = "datetime"
        THEN PyStr(date_isoformat(val.n) \o <<" ">> \o time_isoformat(val.n2))
    ELSE IF val.t = "date" THEN PyStr(date_isoformat(val.n))
    ELSE IF val.t = "Decimal" THEN PyStr(Decimal_str(val.n, val.n2))
    ELSE IF val.t = "conform" THEN val
    ELSE PyEllipsis

\* isinstance(pvalue, Collection) and not isinstance(pvalue, Mapping),
\* for the values that _encode_val does not encode
IsNonMappingCollection(val) == val.t = "list"

\* end of the _SQL_SPLITTER match that starts at i, or 0 when none starts there
\* ('.*?' and ".*?" stop at the first closing quote and never cross a line
\* break; --.*?\n needs the line break)
SplitterMatchEnd(s, i) ==
    IF s[i] \in {"'", "\""}
    THEN LET j == IndexOf(s, s[i], i + 1)
         IN  IF j # 0 /\ \A k \in (i + 1)..(j - 1) : s[k] # "\n" THEN j ELSE 0
    ELSE IF s[i] = "-" /\ i + 1 <= Len(s) /\ s[i + 1] = "-"
    THEN IndexOf(s, "\n", i + 2)
    ELSE 0

\* _SQL_SPLITTER.finditer(sql): the spans <<first, last>> of the matches
RECURSIVE _SQL_SPLITTER_finditer(_, _)
_SQL_SPLITTER_finditer(s, i) ==
    IF i > Len(s) THEN <<>>
    ELSE LET e == SplitterMatchEnd(s, i)
         IN  IF e # 0
             THEN <<<<i, e>>>> \o _SQL_SPLITTER_finditer(s, e + 1)
             ELSE _SQL_SPLITTER_finditer(s, i + 1)

\* the text that replaces one expanded named placeholder
NamedReplacement(pname, size) ==
    Join([i \in 1..size |->
            <<":", "_", "_">> \o Tail(pname) \o <<"_">> \o IntToStr(i - 1)])

\* _propagate_one_name without the test of the character that follows
RECURSIVE _propagate_one_name_no_boundary(_, _, _)
_propagate_one_name_no_boundary(pname, size, code) ==
    LET pos == Find(code, pname)
        pname_len == Len(pname)
    IN  IF pos = 0 THEN code
        ELSE SubSeq(code, 1, pos - 1) \o NamedReplacement(pname, size)
                \o _propagate_one_name_no_boundary(pname, size,
                        SubSeq(code, pos + pname_len, Len(code)))

\* the `while True` loop of _propagate_named_params for one pname
RECURSIVE _propagate_one_name(_, _, _)
_propagate_one_name(pname, size, code) ==
    LET pos == Find(code, pname)
        pname_len == Len(pname)
    IN  IF pos = 0 THEN code
        ELSE LET next_char ==
                     SubSeq(code, pos + pname_len,
                            Min(pos + pname_len, Len(code)))
                 keep == \/ next_char # <<>> /\ isalnum(next_char[1])
                         \/ next_char = <<"_">>
                 part == IF keep THEN pname
                         ELSE NamedReplacement(pname, size)
             IN  SubSeq(code, 1, pos - 1) \o part
                    \o _propagate_one_name(pname, size,
                            SubSeq(code, pos + pname_len, Len(code)))

\* list_param_sizes is an ordered dict (k = ":" + name, v = size)
RECURSIVE _propagate_named_params(_, _)
_propagate_named_params(list_param_sizes, code) ==
    IF list_param_sizes = <<>> THEN code
    ELSE _propagate_named_params(
            Tail(list_param_sizes),
            _propagate_one_name(list_param_sizes[1].k, list_param_sizes[1].v,
                                code))

\* list_param_sizes is a function from 0-based parameter index to size;
\* returns the rewritten code and the advanced next_idx_var[0]
RECURSIVE _propagate_positional_params(_, _, _)
_propagate_positional_params(list_param_sizes, next_idx, code) ==
    LET q == IndexOf(code, "?", 1)
    IN  IF q = 0 THEN [code |-> code, idx |-> next_idx]
        ELSE LET part == IF next_idx \in DOMAIN list_param_sizes
                         THEN Join([i \in 1..list_param_sizes[next_idx]
                                        |-> <<"?">>])
                         ELSE <<"?">>
                 rest == _propagate_positional_params(
                            list_param_sizes, next_idx + 1,
                            SubSeq(code, q + 1, Len(code)))
             IN  [code |-> SubSeq(code, 1, q - 1) \o part \o rest.code,
                  idx |-> rest.idx]

\* propagate_func: the partial application handed to _adjust_sql
propagate_func(style, list_param_sizes, next_idx, code) ==
    IF style = "named"
    THEN [code |-> _propagate_named_params(list_param_sizes, code),
          idx |-> next_idx]
    ELSE _propagate_positional_params(list_param_sizes, next_idx, code)

\* the `for mtch in finditer` loop of _adjust_sql from match k on; `from` is
\* last_pos + 1
RECURSIVE _adjust_sql_loop(_, _, _, _, _, _, _)
_adjust_sql_loop(sql, spans, k, from, style, list_param_sizes, next_idx) ==
    IF k > Len(spans)
    THEN IF from <= Len(sql)
         THEN propagate_func(style, list_param_sizes, next_idx,
                             SubSeq(sql, from, Len(sql))).code
         ELSE <<>>
    ELSE LET span == spans[k]
             r == propagate_func(style, list_param_sizes, next_idx,
                                 SubSeq(sql, from, span[1] - 1))
         IN  r.code \o SubSeq(sql, span[1], span[2])
                \o _adjust_sql_loop(sql, spans, k + 1, span[2] + 1, style,
                                    list_param_sizes, r.idx)

_adjust_sql(sql, style, list_param_sizes) ==
    _adjust_sql_loop(sql, _SQL_SPLITTER_finditer(sql, 1), 1, 1, style,
                     list_param_sizes, 0)

(***************************************************************************)
(* A parameter container is a tuple (style "pos") or a dict (style         *)
(* "named"); a call result is returned ("ok"), raised ("raise") or absent  *)
(* (None, "skip").                                                         *)
(***************************************************************************)
Params(style, pos, named) == [style |-> style, pos |-> pos, named |-> named]
Tuple(pos) == Params("pos", pos, <<>>)
Dict(named) == Params("named", <<>>, named)
NoExc == Exc("", "", FALSE, <<>>, NoIdx)

Returned(sql, params) ==
    [kind |-> "ok", sql |-> sql, params |-> params, exc |-> NoExc]
Raised(exc) ==
    [kind |-> "raise", sql |-> PyNone, params |-> Tuple(<<>>), exc |-> exc]
Skipped == [kind |-> "skip", sql |-> PyNone, params |-> Tuple(<<>>), exc |-> NoExc]
NotYet == [kind |-> "", sql |-> PyNone, params |-> Tuple(<<>>), exc |-> NoExc]

\* the TypeError without the element index in its message
WrongParamType_no_index(param, idx) ==
    Exc("TypeError", "encoding", FALSE, param, NoIdx)

WrongParamType(param, idx) == Exc("TypeError", "encoding", FALSE, param, idx)

\* `for idx, pval in enumerate(pvalue)` of _prepare_named_params from element
\* i on: the first failing element index (1-based) or 0, and res_params
RECURSIVE _named_elements(_, _, _, _)
_named_elements(pname, elems, i, res_params) ==
    IF i > Len(elems) THEN [fail |-> 0, res |-> res_params]
    ELSE LET val == _encode_val(elems[i])
         IN  IF val = PyEllipsis THEN [fail |-> i, res |-> res_params]
             ELSE _named_elements(pname, elems, i + 1,
                    DictSet(res_params,
                            <<"_", "_">> \o pname \o <<"_">> \o IntToStr(i - 1),
                            val))

\* `for pname, pvalue in params.items()` of _prepare_named_params from entry
\* i on
RECURSIVE _named_loop(_, _, _, _)
_named_loop(params, i, list_param_sizes, res_params) ==
    IF i > Len(params)
    THEN [exc |-> NoExc, sizes |-> list_param_sizes, res |-> res_params]
    ELSE LET pname == params[i].k
             pvalue == params[i].v
             val == _encode_val(pvalue)
         IN  IF val # PyEllipsis
             THEN _named_loop(params, i + 1, list_param_sizes,
                              DictSet(res_params, pname, val))
             ELSE IF IsNonMappingCollection(pvalue)
             THEN LET el == _named_elements(pname, pvalue.e, 1, res_params)
                  IN  IF el.fail # 0
                      THEN [exc |-> WrongParamType(pname, el.fail - 1),
                            sizes |-> list_param_sizes, res |-> res_params]
                      ELSE _named_loop(params, i + 1,
                              DictSet(list_param_sizes, <<":">> \o pname,
                                      Len(pvalue.e)),
                              el.res)
             ELSE [exc |-> WrongParamType(pname, NoIdx),
                   sizes |-> list_param_sizes, res |-> res_params]

_prepare_named_params(sql, params) ==
    LET r == _named_loop(params, 1, <<>>, <<>>)
    IN  IF r.exc # NoExc THEN Raised(r.exc)
        ELSE IF r.sizes = <<>> THEN Returned(PyStr(sql), Dict(r.res))
        ELSE Returned(PyStr(_adjust_sql(sql, "named", r.sizes)), Dict(r.res))

\* `for idx, pval in enumerate(pvalue)` of _prepare_positional_params
RECURSIVE _positional_elements(_, _, _)
_positional_elements(elems, i, res_params) ==
    IF i > Len(elems) THEN [fail |-> 0, res |-> res_params]
    ELSE LET val == _encode_val(elems[i])
         IN  IF val = PyEllipsis THEN [fail |-> i, res |-> res_params]
             ELSE _positional_elements(elems, i + 1, Append(res_params, val))

\* `for pidx, pvalue in enumerate(params)` of _prepare_positional_params;
\* list_param_sizes is the set of <<pidx, size>> pairs collected so far
RECURSIVE _positional_loop(_, _, _, _)
_positional_loop(params, i, list_param_sizes, res_params) ==
    IF i > Len(params)
    THEN [exc |-> NoExc, sizes |-> list_param_sizes, res |-> res_params]
    ELSE LET pidx == i - 1
             pvalue == params[i]
             val == _encode_val(pvalue)
         IN  IF val # PyEllipsis
             THEN _positional_loop(params, i + 1, list_param_sizes,
                                   Append(res_params, val))
             ELSE IF IsNonMappingCollection(pvalue)
             THEN LET el == _positional_elements(pvalue.e, 1, res_params)
                  IN  IF el.fail # 0
                      THEN [exc |-> WrongParamType(IntToStr(pidx), el.fail - 1),
                            sizes |-> list_param_sizes, res |-> res_params]
                      ELSE _positional_loop(params, i + 1,
                              list_param_sizes \cup {<<pidx, Len(pvalue.e)>>},
                              el.res)
             ELSE [exc |-> WrongParamType(IntToStr(pidx), NoIdx),
                   sizes |-> list_param_sizes, res |-> res_params]

_prepare_positional_params(sql, params) ==
    LET r == _positional_loop(params, 1, {}, <<>>)
        sizes == [pidx \in {p[1] : p \in r.sizes} |->
                    (CHOOSE p \in r.sizes : p[1] = pidx)[2]]
    IN  IF r.exc # NoExc THEN Raised(r.exc)
        ELSE IF r.sizes = {} THEN Returned(PyStr(sql), Tuple(r.res))
        ELSE Returned(PyStr(_adjust_sql(sql, "pos", sizes)), Tuple(r.res))

(***************************************************************************)
(* noorm/_common.py: call arguments as a tuple or as a dict.  `names` is   *)
(* name_by_idx, `defaults` is defaults_by_idx (an ordered dict keyed by    *)
(* the 0-based index) of _func_args_info.                                  *)
(***************************************************************************)
\* args_as_tuple that appends the keyword arguments in the caller's order
args_as_tuple_call_order(names, defaults, args, kwargs) ==
    args \o [j \in 1..Len(kwargs) |-> kwargs[j].v]

args_as_tuple(names, defaults, args, kwargs) ==
    args \o [j \in 1..(Len(names) - Len(args)) |->
                LET i == Len(args) + j - 1
                    n == names[i + 1]
                IN  IF n \in Keys(kwargs) THEN DictGet(kwargs, n)
                    ELSE DictGet(defaults, i)]

\* the dict comprehension of args_as_dict from 0-based index i on, merged
\* into acc (kwargs | {...})
RECURSIVE _args_as_dict_loop(_, _, _, _, _, _)
_args_as_dict_loop(names, defaults, args, kwargs, i, acc) ==
    IF i >= Len(names) THEN acc
    ELSE LET n == names[i + 1]
         IN  _args_as_dict_loop(names, defaults, args, kwargs, i + 1,
                IF n \in Keys(kwargs) THEN acc
                ELSE DictSet(acc, n, IF i < Len(args) THEN args[i + 1]
                                     ELSE DictGet(defaults, i)))

args_as_dict(names, defaults, args, kwargs) ==
    _args_as_dict_loop(names, defaults, args, kwargs, 0, kwargs)

(***************************************************************************)
(* noorm/_db_api_2.py                                                      *)
(***************************************************************************)
NoneParams == Params("none", <<>>, <<>>)

\* what a call returns or raises
Value(t, sql, params) == [t |-> t, sql |-> sql, params |-> params, exc |-> NoExc]
Throw(exc) == [t |-> "raise", sql |-> PyNone, params |-> NoneParams, exc |-> exc]

PrepareFuncResult(sql, params) == Value("PrepareFuncResult", sql, params)

\* _bake_params without the check that raises
_bake_params_unchecked(args, kwargs) ==
    IF kwargs # <<>> THEN Value("params", PyNone, Dict(kwargs))
    ELSE IF args # <<>> THEN Value("params", PyNone, Tuple(args))
    ELSE Value("params", PyNone, NoneParams)

_bake_params(args, kwargs) ==
    IF args # <<>> /\ kwargs # <<>>
    THEN Throw(Exc("ValueError", "usage", FALSE, <<>>, NoIdx))
    ELSE IF kwargs # <<>> THEN Value("params", PyNone, Dict(kwargs))
    ELSE IF args # <<>> THEN Value("params", PyNone, Tuple(args))
    ELSE Value("params", PyNone, NoneParams)

params(args, kwargs) ==
    LET b == _bake_params(args, kwargs)
    IN  IF b.t = "raise" THEN b ELSE PrepareFuncResult(PyNone, b.params)

query_and_params(sql, args, kwargs) ==
    LET b == _bake_params(args, kwargs)
    IN  IF b.t = "raise" THEN b ELSE PrepareFuncResult(sql, b.params)

query_only(sql) == PrepareFuncResult(sql, NoneParams)

\* func(*f_args, **f_kwargs): the body of the query function, as described
\* by fn
func(f, args, kwargs) ==
    CASE f.kind = "cancel" ->
            Throw(Exc("CancelExecException", "func", FALSE, <<>>, NoIdx))
      [] f.kind = "none" -> Value("None", PyNone, NoneParams)
      [] f.kind = "other" -> Value("other", PyNone, NoneParams)
      [] f.kind = "positional" ->
            Value("PARAMS_APPLY_POSITIONAL", PyNone, NoneParams)
      [] f.kind = "named" -> Value("PARAMS_APPLY_NAMED", PyNone, NoneParams)
      [] f.kind = "params" -> params(f.args, f.kwargs)
      [] f.kind = "query_and_params" -> query_and_params(f.sql, f.args, f.kwargs)
      [] f.kind = "query_only" -> query_only(f.sql)

\* the classification of the returned value r (the if/elif chain): the
\* statement and the parameters, or the TypeError
Unresolved == [raise |-> TRUE, sql |-> PyNone, params |-> NoneParams]
Resolved(sql, ps) == [raise |-> FALSE, sql |-> sql, params |-> ps]

\* classify in which a missing statement also drops the parameters
classify_joint_fallback(r, f, args, kwargs, default) ==
    CASE r.t = "PARAMS_APPLY_POSITIONAL" ->
            Resolved(default,
                     Tuple(args_as_tuple(f.names, f.defaults, args, kwargs)))
      [] r.t = "PARAMS_APPLY_NAMED" ->
            Resolved(default,
                     Dict(args_as_dict(f.names, f.defaults, args, kwargs)))
      [] r.t = "PrepareFuncResult" ->
            IF r.sql = PyNone THEN Resolved(default, Tuple(<<>>))
            ELSE Resolved(r.sql, IF r.params = NoneParams THEN Tuple(<<>>)
                                 ELSE r.params)
      [] r.t = "None" -> Resolved(default, Tuple(<<>>))
      [] OTHER -> Unresolved

\* classify without the final `else: raise TypeError`
classify_lenient(r, f, args, kwargs, default) ==
    CASE r.t = "PARAMS_APPLY_POSITIONAL" ->
            Resolved(default,
                     Tuple(args_as_tuple(f.names, f.defaults, args, kwargs)))
      [] r.t = "PARAMS_APPLY_NAMED" ->
            Resolved(default,
                     Dict(args_as_dict(f.names, f.defaults, args, kwargs)))
      [] r.t = "PrepareFuncResult" ->
            Resolved(IF r.sql = PyNone THEN default ELSE r.sql,
                     IF r.params = NoneParams THEN Tuple(<<>>) ELSE r.params)
      [] OTHER -> Resolved(default, Tuple(<<>>))

classify(r, f, args, kwargs, default) ==
    CASE r.t = "PARAMS_APPLY_POSITIONAL" ->
            Resolved(default,
                     Tuple(args_as_tuple(f.names, f.defaults, args, kwargs)))
      [] r.t = "PARAMS_APPLY_NAMED" ->
            Resolved(default,
                     Dict(args_as_dict(f.names, f.defaults, args, kwargs)))
      [] r.t = "PrepareFuncResult" ->
            Resolved(IF r.sql = PyNone THEN default ELSE r.sql,
                     IF r.params = NoneParams THEN Tuple(<<>>) ELSE r.params)
      [] r.t = "None" -> Resolved(default, Tuple(<<>>))
      [] OTHER -> Unresolved

\* req_sql_n_params without the `if sql is None` check
req_sql_n_params_unchecked(f, args, kwargs, default) ==
    LET r == func(f, args, kwargs)
        resolved == classify(r, f, args, kwargs, default)
    IN  IF r.t = "raise"
        THEN IF r.exc.cls = "CancelExecException" THEN Skipped ELSE Raised(r.exc)
        ELSE IF resolved.raise
        THEN Raised(Exc("TypeError", "usage", TRUE, <<>>, NoIdx))
        ELSE Returned(resolved.sql, resolved.params)

req_sql_n_params(f, args, kwargs, default) ==
    LET r == func(f, args, kwargs)
        resolved == classify(r, f, args, kwargs, default)
    IN  IF r.t = "raise"
        THEN IF r.exc.cls = "CancelExecException" THEN Skipped ELSE Raised(r.exc)
        ELSE IF resolved.raise
        THEN Raised(Exc("TypeError", "usage", TRUE, <<>>, NoIdx))
        ELSE IF resolved.sql = PyNone
        THEN Raised(Exc("RuntimeError", "config", TRUE, <<>>, NoIdx))
        ELSE Returned(resolved.sql, resolved.params)

(***************************************************************************)
(* noorm/_sqlite_common.py: sqlite_sql_n_params, second half (the first    *)
(* half is the call of req_sql_n_params).                                  *)
(***************************************************************************)
\* sqlite_sql_n_params that hands the resolved pair over as it is
sqlite_prepare_raw(resolved) == Returned(resolved.sql, resolved.params)

\* sqlite_sql_n_params that encodes the scalar parameters and hands the
\* containers over as they are, unexpanded
sqlite_prepare_scalars_only(resolved) ==
    LET enc(v) == IF _encode_val(v) # PyEllipsis THEN _encode_val(v) ELSE v
    IN  Returned(resolved.sql,
            [resolved.params EXCEPT
                !.pos = [i \in 1..Len(@) |-> enc(@[i])],
                !.named = [i \in 1..Len(@) |-> [k |-> @[i].k, v |-> enc(@[i].v)]]])

sqlite_prepare(resolved) ==
    IF resolved.params.style = "named"
    THEN _prepare_named_params(resolved.sql.s, resolved.params.named)
    ELSE _prepare_positional_params(resolved.sql.s, resolved.params.pos)

sqlite_sql_n_params(f, args, kwargs, default) ==
    LET r == req_sql_n_params(f, args, kwargs, default)
    IN  IF r.kind = "ok" THEN sqlite_prepare(r) ELSE r

(***************************************************************************)
(* noorm/sqlite3/_sqlite3.py: the decorated call, wrapper.__call__.        *)
(***************************************************************************)
Modes == {"sql_fetch_all", "sql_iterate", "sql_one_or_none",
          "sql_scalar_or_none", "sql_fetch_scalars", "sql_iterate_scalars",
          "sql_execute"}

Outcome(kind, shape, n, exc) ==
    [kind |-> kind, shape |-> shape, n |-> n, exc |-> exc]
NoOutcome == Outcome("", "", 0, NoExc)
Return(shape, n) == Outcome("return", shape, n, NoExc)
Raise(exc) == Outcome("raise", "", 0, exc)

\* every wrapper falling through to an implicit `return None`
ReturnWithoutQuery_None(m) == Return("None", 0)

\* what each wrapper returns when sqlite_sql_n_params returned None
ReturnWithoutQuery(m) ==
    CASE m \in {"sql_fetch_all", "sql_fetch_scalars"} -> Return("list", 0)
      [] m \in {"sql_iterate", "sql_iterate_scalars"} -> Return("generator", 0)
      [] m \in {"sql_one_or_none", "sql_scalar_or_none", "sql_execute"} ->
            Return("None", 0)

\* what each wrapper returns after execute() produced n rows
ReturnWithRows(m, n) ==
    CASE m \in {"sql_fetch_all", "sql_fetch_scalars"} -> Return("list", n)
      [] m \in {"sql_iterate", "sql_iterate_scalars"} -> Return("generator", n)
      [] m = "sql_one_or_none" ->
            IF n > 0 THEN Return("row", 1) ELSE Return("None", 0)
      [] m = "sql_scalar_or_none" ->
            IF n > 0 THEN Return("scalar", 1) ELSE Return("None", 0)
      [] m = "sql_execute" -> Return("None", 0)

\* sqlite_sql_n_params, first half: the query function is invoked and its
\* result resolved by req_sql_n_params
Resolve ==
    /\ pc = "start"
    /\ LET r == req_sql_n_params(fn, f_args, f_kwargs, default_sql)
       IN  /\ sql_n_params' = r
           /\ func_calls' = func_calls + 1
           /\ CASE r.kind = "raise" ->
                    /\ outcome' = Raise(r.exc)
                    /\ pc' = "done"
                    /\ UNCHANGED sql_and_params
                [] r.kind = "skip" ->
                    /\ sql_and_params' = Skipped
                    /\ pc' = "skipped"
                    /\ UNCHANGED outcome
                [] r.kind = "ok" ->
                    /\ pc' = "resolved"
                    /\ UNCHANGED <<sql_and_params, outcome>>
    /\ UNCHANGED <<codec_vars, db_vars, sa_vars, reg_vars>>
    /\ UNCHANGED <<mode, default_sql, fn, f_args, f_kwargs, execute_calls,
                   driver, rows>>

\* sqlite_sql_n_params, second half: encoding and placeholder expansion
Prepare ==
    /\ pc = "resolved"
    /\ LET r == sqlite_prepare(sql_n_params)
       IN  IF r.kind = "raise"
           THEN /\ outcome' = Raise(r.exc)
                /\ pc' = "done"
                /\ UNCHANGED sql_and_params
           ELSE /\ sql_and_params' = r
                /\ pc' = "prepared"
                /\ UNCHANGED outcome
    /\ UNCHANGED <<codec_vars, db_vars, sa_vars, reg_vars>>
    /\ UNCHANGED <<mode, default_sql, fn, f_args, f_kwargs, sql_n_params,
                   func_calls, execute_calls, driver, rows>>

\* the sqlite3 driver binds numbers, text, bytes, None and adaptable
\* objects; any other value makes execute() raise a binding error
DriverBinds(ps) ==
    \A v \in {ps.pos[i] : i \in 1..Len(ps.pos)}
            \cup {ps.named[i].v : i \in 1..Len(ps.named)} :
        v.t \notin {"list", "dict", "object", "ellipsis"}

\* conn.execute(*sql_and_params)
Execute ==
    /\ pc = "prepared"
    /\ execute_calls' = execute_calls + 1
    /\ IF ~DriverBinds(sql_and_params.params)
       THEN /\ outcome' = Raise(Exc("ProgrammingError", "encoding", FALSE,
                                    <<>>, NoIdx))
            /\ pc' = "done"
            /\ UNCHANGED rows
       ELSE IF driver.fails
       THEN /\ outcome' = Raise(Exc("OperationalError", "driver", FALSE,
                                    <<>>, NoIdx))
            /\ pc' = "done"
            /\ UNCHANGED rows
       ELSE /\ rows' = driver.rows
            /\ pc' = "executed"
            /\ UNCHANGED outcome
    /\ UNCHANGED <<codec_vars, db_vars, sa_vars, reg_vars>>
    /\ UNCHANGED <<mode, default_sql, fn, f_args, f_kwargs, sql_n_params,
                   sql_and_params, func_calls, driver>>

\* the rows are decoded and returned (or yielded)
ReturnRows ==
    /\ pc = "executed"
    /\ outcome' = ReturnWithRows(mode, rows)
    /\ pc' = "done"
    /\ UNCHANGED <<codec_vars, db_vars, sa_vars, reg_vars>>
    /\ UNCHANGED <<mode, default_sql, fn, f_args, f_kwargs, sql_n_params,
                   sql_and_params, func_calls, execute_calls, driver, rows>>

\* `if sql_and_params := ...` is false: nothing is executed
ReturnEmpty ==
    /\ pc = "skipped"
    /\ outcome' = ReturnWithoutQuery(mode)
    /\ pc' = "done"
    /\ UNCHANGED <<codec_vars, db_vars, sa_vars, reg_vars>>
    /\ UNCHANGED <<mode, default_sql, fn, f_args, f_kwargs, sql_n_params,
                   sql_and_params, func_calls, execute_calls, driver, rows>>

Next == Resolve \/ Prepare \/ Execute \/ ReturnRows \/ ReturnEmpty

(***************************************************************************)
(* Inputs.  Statements are concatenations of lexical fragments; parameter  *)
(* values are a scalar or the container of each size 0..MaxK.              *)
(***************************************************************************)
\* SQL's own lexical rule: a literal runs from its quote to the next matching
\* quote whatever lies between, a line comment from -- to the end of its line
\* or of the text.  Last index of the span that opens at i, 0 when none opens
\* there; an unterminated literal runs to the end of the text.
SqlSpanEnd(s, i) ==
    IF s[i] \in {"'", "\""}
    THEN LET j == IndexOf(s, s[i], i + 1) IN IF j # 0 THEN j ELSE Len(s)
    ELSE IF s[i] = "-" /\ i + 1 <= Len(s) /\ s[i + 1] = "-"
    THEN LET j == IndexOf(s, "\n", i + 2) IN IF j # 0 THEN j ELSE Len(s)
    ELSE 0

RECURSIVE SqlSpans(_, _)
SqlSpans(s, i) ==
    IF i > Len(s) THEN <<>>
    ELSE LET e == SqlSpanEnd(s, i)
         IN  IF e # 0 THEN <<<<i, e>>>> \o SqlSpans(s, e + 1)
             ELSE SqlSpans(s, i + 1)

\* every literal of the statement is closed
Tokenizable(s) ==
    \A k \in 1..Len(SqlSpans(s, 1)) :
        LET sp == SqlSpans(s, 1)[k]
        IN  s[sp[1]] \in {"'", "\""} => sp[2] > sp[1] /\ s[sp[2]] = s[sp[1]]

A == <<"a">>
AB == <<"a", "b">>

PosFrags ==
    { <<"?">>, <<"x">>, <<"'", "?", "'">>, <<"'", "\n", "'">>,
      <<"\"", "'", "\"">>, <<"-", "-", "?">>, <<"\n">> }

NamedFrags ==
    { <<":", "a">>, <<"b">>, <<",">>, <<"'", ":", "a", "'">>,
      <<"'", "\n", "'">>, <<"-", "-", ":", "a">>, <<"\n">> }

RECURSIVE Flatten(_)
Flatten(fs) == IF fs = <<>> THEN <<>> ELSE Head(fs) \o Flatten(Tail(fs))

SeqsUpTo(S, n) == UNION {[1..k -> S] : k \in 0..n}

Statements(frags) ==
    {sql \in {Flatten(fs) : fs \in SeqsUpTo(frags, MaxFrags)} : Tokenizable(sql)}

Elem(i) == IF i = 1 THEN PyBool(TRUE) ELSE PyInt(i)
Container(K) == PyList([i \in 1..K |-> Elem(i)])
Containers == {Container(K) : K \in 0..MaxK}
GoodValues == {PyInt(1)} \cup Containers
\* a mapping, an unencodable object, a container holding a container
BadValues == {PyDict, PyObject, PyList(<<PyInt(1), PyList(<<>>)>>)}

PosParams(vals) == SeqsUpTo(vals, MaxParams)

NamedParams(names, vals) ==
    {d \in SeqsUpTo([k : names, v : vals], Min(MaxParams, Cardinality(names))) :
        \A i, j \in 1..Len(d) : i # j => d[i].k # d[j].k}

Fn(kind, sql, args, kwargs, names, defaults) ==
    [kind |-> kind, sql |-> sql, args |-> args, kwargs |-> kwargs,
     names |-> names, defaults |-> defaults]

\* a query function without parameters of its own
Fn0(kind, sql, args, kwargs) == Fn(kind, sql, args, kwargs, <<>>, <<>>)

PosStatements == Statements(PosFrags)
NamedStatements == Statements(NamedFrags)

DefaultStatement == PyStr(<<"?", ",", ":", "a">>)
OtherStatement == PyStr(<<":", "a", ",", "?">>)

VarietyValues == {PyInt(1), Container(MaxK)} \cup BadValues

VarietyArgs ==
    {<<<<>>, <<>>>>, <<<<PyInt(1)>>, <<[k |-> A, v |-> PyInt(1)]>>>>}
    \cup {<<<<v>>, <<>>>> : v \in VarietyValues}
    \cup {<<<<>>, <<[k |-> A, v |-> v]>>>> : v \in VarietyValues}

\* every shape of query function result
VarietyFns ==
    {Fn0(k, PyNone, <<>>, <<>>) : k \in {"cancel", "none", "other"}}
    \cup {Fn0("query_only", sql, <<>>, <<>>) : sql \in {PyNone, OtherStatement}}
    \cup {Fn0("params", PyNone, a[1], a[2]) : a \in VarietyArgs}
    \cup {Fn0("query_and_params", sql, a[1], a[2]) :
            sql \in {PyNone, OtherStatement}, a \in VarietyArgs}

\* a query function `def f(a, ab=0)` that returns one of the sentinels
AutoFns ==
    {Fn(k, PyNone, <<>>, <<>>, <<A, AB>>, <<[k |-> 1, v |-> PyInt(0)]>>) :
        k \in {"positional", "named"}}

\* the ways to call f(a, ab=0)
AutoCalls ==
    UNION {{ <<<<v>>, <<>>>>,
             <<<<>>, <<[k |-> A, v |-> v]>>>>,
             <<<<v, PyInt(2)>>, <<>>>>,
             <<<<v>>, <<[k |-> AB, v |-> PyInt(2)]>>>>,
             <<<<>>, <<[k |-> AB, v |-> PyInt(2)], [k |-> A, v |-> v]>>>> } :
           v \in VarietyValues}

Drivers == [fails : BOOLEAN, rows : 0..MaxRows]

\* the parts of the program that take no part in a specification stay as
\* they are at import time
CodecIdle == codec = [pc |-> "idle"]
DbIdle ==
    /\ _conns = <<>>
    /\ blocks = <<[conn |-> "unset", exits |-> 0]>>
    /\ db_call = [kind |-> "", conn |-> "unset", innermost |-> "unset"]
SaIdle == no_commit = FALSE /\ commits = 0
FuncNames == {"f", "g"}
ErrorNames == {"KeyError", "ValueError"}

\* Stat(): the value a defaultdict(Stat) holds for every name not yet counted
Stat == [calls |-> 0, tuples |-> 0, fails |-> 0,
         fails_by_error |-> [e \in ErrorNames |-> 0]]

\* FuncCallEvent without its duration; error is "" for None
FuncCallEvent(func_name, tuples, error) ==
    [func_name |-> func_name, tuples |-> tuples, error |-> error]

NoEvent == FuncCallEvent("", 0, "")

\* a decorated call as its caller sees it end: how is "return", "cancel" or
\* "raise"; shape is "list" or "generator"; first_row tells that a
\* generator fetched a row before it ended
Call(name, shape, how, error, tuples, first_row) ==
    [name |-> name, shape |-> shape, how |-> how, error |-> error,
     tuples |-> tuples, first_row |-> first_row]

NoCall == Call("", "", "", "", 0, FALSE)

\* a thread of the main process outside on_event
ThreadIdle == [pc |-> "idle", event |-> NoEvent, read |-> 0, call |-> NoCall]

RegIdle ==
    /\ stat_by_name = [n \in FuncNames |-> Stat]
    /\ _event_listeners = <<>>
    /\ delivered = <<>>
    /\ environ = 0
    /\ _mp_listener_started = FALSE
    /\ _mp_socket = <<>>
    /\ threads = [t \in {"main", "listener"} |-> ThreadIdle]
    /\ child = [started |-> FALSE, _mp_port |-> 0,
                stat_by_name |-> [n \in FuncNames |-> Stat], calls |-> 0]
    /\ finished = <<>>
    /\ mc = [pc |-> "idle"]
    /\ mp = [_mp_socket |-> 0, _mp_port |-> 0, sockets |-> <<>>,
             listeners |-> <<>>, inits |-> 0, closes |-> 0]

\* no decorated call is under way
CallIdle ==
    /\ mode = "" /\ default_sql = PyNone /\ fn = Fn0("none", PyNone, <<>>, <<>>)
    /\ f_args = <<>> /\ f_kwargs = <<>> /\ pc = "idle"
    /\ sql_n_params = NotYet /\ sql_and_params = NotYet
    /\ func_calls = 0 /\ execute_calls = 0
    /\ driver = [fails |-> FALSE, rows |-> 0] /\ rows = 0
    /\ outcome = NoOutcome

InitCall ==
    /\ CodecIdle /\ DbIdle /\ SaIdle /\ RegIdle
    /\ pc = "start"
    /\ sql_n_params = NotYet
    /\ sql_and_params = NotYet
    /\ func_calls = 0
    /\ execute_calls = 0
    /\ rows = 0
    /\ outcome = NoOutcome

\* generated statements and parameters, handed over by query_and_params
InitRewrite ==
    /\ mode = "sql_one_or_none"
    /\ default_sql = PyNone
    /\ \/ \E sql \in PosStatements, args \in PosParams(GoodValues) :
            fn = Fn0("query_and_params", PyStr(sql), args, <<>>)
       \/ \E sql \in NamedStatements, kwargs \in NamedParams({A, AB}, GoodValues) :
            fn = Fn0("query_and_params", PyStr(sql), <<>>, kwargs)
    /\ f_args = <<>>
    /\ f_kwargs = <<>>
    /\ driver = [fails |-> FALSE, rows |-> 1]

\* every decorator, with and without a default statement, around every
\* shape of query function
InitVariety ==
    /\ mode \in Modes
    /\ default_sql \in {PyNone, DefaultStatement}
    /\ \/ fn \in VarietyFns /\ f_args = <<>> /\ f_kwargs = <<>>
       \/ fn \in AutoFns /\ \E c \in AutoCalls : f_args = c[1] /\ f_kwargs = c[2]
    /\ driver \in {d \in Drivers : d.fails => d.rows = 0}

\* a value of each type that _encode_val tells apart
ScalarValues ==
    {PyNone, PyInt(7), PyBool(TRUE), PyBool(FALSE), PyStr(<<"x">>), PyFloat(3),
     PyBytes(<<"x">>), PyDate(20240209), PyDatetime(20240209, 70503),
     PyDecimal(12345, 4), PyDecimal(10, 0), PyConform}

\* the scalars, and the values that cannot be encoded
EncodeValues == ScalarValues \cup BadValues \cup {PyList(<<PyObject>>)}

\* parameters of every type, handed over by params
InitEncode ==
    /\ mode = "sql_fetch_all"
    /\ default_sql = DefaultStatement
    /\ \/ \E args \in PosParams(EncodeValues) :
            fn = Fn0("params", PyNone, args, <<>>)
       \/ \E kwargs \in NamedParams({A, AB}, EncodeValues) :
            fn = Fn0("params", PyNone, <<>>, kwargs)
    /\ f_args = <<>>
    /\ f_kwargs = <<>>
    /\ driver = [fails |-> FALSE, rows |-> 1]

Init == InitCall /\ (InitRewrite \/ InitVariety \/ InitEncode)

Spec == Init /\ [][Next]_vars

(***************************************************************************)
(* Vocabulary of the properties: what the statement and the parameters     *)
(* ought to be, in terms of SQL's lexical rule (SqlSpans).                 *)
(***************************************************************************)
IsIdentChar(c) == c \in Letters \cup Digits \cup {"_"}

\* the statement with every literal and comment replaced by one "#"
RECURSIVE CodeViewFrom(_, _, _, _)
CodeViewFrom(s, spans, k, from) ==
    IF k > Len(spans) THEN SubSeq(s, from, Len(s))
    ELSE SubSeq(s, from, spans[k][1] - 1) \o <<"#">>
            \o CodeViewFrom(s, spans, k + 1, spans[k][2] + 1)

CodeView(s) == CodeViewFrom(s, SqlSpans(s, 1), 1, 1)

\* the texts of the single-quoted literals and of the line comments, in order
OpaqueTexts(s) ==
    LET spans == SqlSpans(s, 1)
        texts == [k \in 1..Len(spans) |-> SubSeq(s, spans[k][1], spans[k][2])]
    IN  SelectSeq(texts, LAMBDA t : t[1] \in {"'", "-"})

IsContainer(v) == v.t = "list"

\* K placeholders separated by ", "
RECURSIVE QMarks(_)
QMarks(K) ==
    IF K = 0 THEN <<>> ELSE IF K = 1 THEN <<"?">>
    ELSE QMarks(K - 1) \o <<",", " ", "?">>

\* :__name_0, :__name_1, ..., :__name_{K-1}
RECURSIVE SyntheticRun(_, _)
SyntheticRun(name, K) ==
    IF K = 0 THEN <<>>
    ELSE (IF K = 1 THEN <<>> ELSE SyntheticRun(name, K - 1) \o <<",", " ">>)
            \o <<":", "_", "_">> \o name \o <<"_">> \o IntToStr(K - 1)

\* the code view in which the j-th `?` (from 0) stands K times when
\* parameter j is a container of K elements
RECURSIVE ExpandedPositional(_, _, _)
ExpandedPositional(view, ps, j) ==
    IF view = <<>> THEN <<>>
    ELSE IF Head(view) # "?"
    THEN <<Head(view)>> \o ExpandedPositional(Tail(view), ps, j)
    ELSE (IF j < Len(ps) /\ IsContainer(ps[j + 1])
          THEN QMarks(Len(ps[j + 1].e)) ELSE <<"?">>)
            \o ExpandedPositional(Tail(view), ps, j + 1)

\* last index of the identifier that starts at i (i - 1 when none does)
RECURSIVE IdentEnd(_, _)
IdentEnd(s, i) ==
    IF i <= Len(s) /\ IsIdentChar(s[i]) THEN IdentEnd(s, i + 1) ELSE i - 1

\* the code view in which every token :name stands as the synthetic run when
\* name is bound to a container
RECURSIVE ExpandedNamed(_, _, _)
ExpandedNamed(view, d, i) ==
    IF i > Len(view) THEN <<>>
    ELSE IF view[i] # ":"
    THEN <<view[i]>> \o ExpandedNamed(view, d, i + 1)
    ELSE LET e == IdentEnd(view, i + 1)
             name == SubSeq(view, i + 1, e)
         IN  IF name \in Keys(d) /\ IsContainer(DictGet(d, name))
             THEN SyntheticRun(name, Len(DictGet(d, name).e))
                    \o ExpandedNamed(view, d, e + 1)
             ELSE <<":">> \o ExpandedNamed(view, d, i + 1)

\* the encoded values of the positional parameters, containers flattened
RECURSIVE FlatEncoded(_)
FlatEncoded(ps) ==
    IF ps = <<>> THEN <<>>
    ELSE (IF IsContainer(Head(ps))
          THEN [i \in 1..Len(Head(ps).e) |-> _encode_val(Head(ps).e[i])]
          ELSE <<_encode_val(Head(ps))>>) \o FlatEncoded(Tail(ps))

\* the call went through encoding and expansion
Expanded == sql_and_params.kind = "ok"
InSql == sql_n_params.sql.s
OutSql == sql_and_params.sql.s
InParams == sql_n_params.params
OutParams == sql_and_params.params

Encodable(v) ==
    \/ _encode_val(v) # PyEllipsis
    \/ IsContainer(v) /\ \A i \in 1..Len(v.e) : _encode_val(v.e[i]) # PyEllipsis

AllEncodable(ps) ==
    /\ \A i \in 1..Len(ps.pos) : Encodable(ps.pos[i])
    /\ \A i \in 1..Len(ps.named) : Encodable(ps.named[i].v)

\* the keys __name_0 .. __name_{K-1} hold the encoded elements in order
HoldsElements(out, name, v) ==
    \A i \in 1..Len(v.e) :
        LET key == <<"_", "_">> \o name \o <<"_">> \o IntToStr(i - 1)
        IN  key \in Keys(out) /\ DictGet(out, key) = _encode_val(v.e[i])

\* C1: for every statement and every container parameter of K elements
\* bound to a placeholder, the expanded statement has exactly K placeholders
\* where that placeholder stood and the parameter container holds exactly K
\* encoded values for the slot; containers (K = 0 included) never make the
\* expansion raise.
C1_ExpansionCount ==
    /\ (pc \in {"prepared", "executed", "done"} /\ sql_n_params.kind = "ok"
            /\ AllEncodable(InParams)) => Expanded
    /\ (Expanded /\ InParams.style = "pos") =>
            /\ CodeView(OutSql)
                    = ExpandedPositional(CodeView(InSql), InParams.pos, 0)
            /\ OutParams.pos = FlatEncoded(InParams.pos)
    /\ (Expanded /\ InParams.style = "named") =>
            /\ CodeView(OutSql) = ExpandedNamed(CodeView(InSql), InParams.named, 1)
            /\ \A i \in 1..Len(InParams.named) :
                    LET p == InParams.named[i]
                    IN  IsContainer(p.v) =>
                            /\ HoldsElements(OutParams.named, p.k, p.v)
                            /\ Cardinality({k \in Keys(OutParams.named) :
                                    /\ Len(k) > Len(p.k) + 3
                                    /\ SubSeq(k, 1, Len(p.k) + 3)
                                        = <<"_", "_">> \o p.k \o <<"_">>})
                                = Len(p.v.e)

\* C2: a ? or :name inside a single-quoted literal or a line comment is
\* never rewritten: the literals and comments of the expanded statement are,
\* text for text, those of the statement that was handed in.
C2_OpaqueImmunity ==
    Expanded => OpaqueTexts(OutSql) = OpaqueTexts(InSql)

\* the exact tokens :name of the names bound to containers: <<position, name>>
ExactTokens(sql, d) ==
    {<<p, d[i].k>> : p \in 1..Len(sql), i \in 1..Len(d)} \cap
    {t \in (1..Len(sql)) \X Keys(d) :
        /\ IsContainer(DictGet(d, t[2]))
        /\ IsAt(sql, <<":">> \o t[2], t[1])
        /\ IdentEnd(sql, t[1] + 1) = t[1] + Len(t[2])}

\* sql with the tokens of S, and nothing else, replaced by their synthetic run
RECURSIVE ReplaceTokens(_, _, _, _)
ReplaceTokens(sql, S, d, i) ==
    IF i > Len(sql) THEN <<>>
    ELSE IF \E t \in S : t[1] = i
    THEN LET name == (CHOOSE t \in S : t[1] = i)[2]
         IN  SyntheticRun(name, Len(DictGet(d, name).e))
                \o ReplaceTokens(sql, S, d, i + Len(name) + 1)
    ELSE <<sql[i]>> \o ReplaceTokens(sql, S, d, i + 1)

\* C3: when named parameters are expanded, only tokens :N of an expanded
\* name N that are not followed by a letter, digit or underscore are
\* replaced; everything else, in particular each longer name that has N as a
\* prefix, is left character for character and keeps its own encoded value.
C3_NameBoundary ==
    (Expanded /\ InParams.style = "named") =>
        /\ \E S \in SUBSET ExactTokens(InSql, InParams.named) :
                OutSql = ReplaceTokens(InSql, S, InParams.named, 1)
        /\ \A i \in 1..Len(InParams.named) :
                LET p == InParams.named[i]
                IN  ~IsContainer(p.v) =>
                        /\ p.k \in Keys(OutParams.named)
                        /\ DictGet(OutParams.named, p.k) = _encode_val(p.v)

\* C3 witness: :a is expanded in a statement that also holds :ab, bound to a
\* scalar
C3_Witness ==
    /\ Expanded /\ InParams.style = "named"
    /\ Keys(InParams.named) = {A, AB}
    /\ DictGet(InParams.named, A) = Container(MaxK)
    /\ ~IsContainer(DictGet(InParams.named, AB))
    /\ Find(InSql, <<":", "a", "b">>) # 0
    /\ ExactTokens(InSql, InParams.named) # {}
    /\ OutSql # InSql

\* C4: a named parameter bound to a container of K elements stands in the
\* statement as :__name_0, ..., :__name_{K-1}, the mapping holds the encoded
\* elements under __name_0 .. __name_{K-1} in order, and the key `name`
\* itself is absent from the rewritten mapping.
C4_NamedExpansionNaming ==
    (Expanded /\ InParams.style = "named") =>
        /\ CodeView(OutSql) = ExpandedNamed(CodeView(InSql), InParams.named, 1)
        /\ \A i \in 1..Len(InParams.named) :
                LET p == InParams.named[i]
                IN  IsContainer(p.v) =>
                        /\ HoldsElements(OutParams.named, p.k, p.v)
                        /\ p.k \notin Keys(OutParams.named)

(***************************************************************************)
(* Properties of the decorated call.                                       *)
(***************************************************************************)
Finished == pc = "done"
RaisedTo(cls) == outcome.kind = "raise" /\ outcome.exc.cls = cls

\* C5: when the query function raises CancelExecException the driver is
\* never called, no exception reaches the caller and the caller receives the
\* decorator's empty value.
C5_CancelShortCircuit ==
    fn.kind = "cancel" =>
        /\ execute_calls = 0
        /\ outcome.kind # "raise"
        /\ Finished =>
            /\ mode \in {"sql_fetch_all", "sql_fetch_scalars"}
                    => outcome = Return("list", 0)
            /\ mode \in {"sql_one_or_none", "sql_scalar_or_none", "sql_execute"}
                    => outcome = Return("None", 0)
            /\ mode \in {"sql_iterate", "sql_iterate_scalars"}
                    => outcome = Return("generator", 0)

C5_Witness ==
    fn.kind = "cancel" /\ Finished /\ mode = "sql_iterate" /\ func_calls = 1

SuppliesBoth ==
    /\ fn.kind \in {"params", "query_and_params"}
    /\ fn.args # <<>>
    /\ fn.kwargs # <<>>

\* C6: a result built by params or query_and_params from at least one
\* positional and at least one keyword parameter raises ValueError, before
\* anything is encoded, rewritten or executed.
C6_MutualExclusivity ==
    (SuppliesBoth /\ pc # "start") =>
        /\ Finished /\ RaisedTo("ValueError")
        /\ sql_n_params.kind = "raise"
        /\ sql_and_params = NotYet
        /\ execute_calls = 0

C6_Witness == SuppliesBoth /\ Finished /\ fn.kind = "query_and_params"

\* C7: None resolves to (default statement, empty sequence); a Prepared
\* result resolves to its statement if it has one, else the default, and to
\* its parameters if it has some, else the empty sequence, each field on its
\* own.
C7_ResolutionFallback ==
    sql_n_params.kind = "ok" =>
        /\ fn.kind = "none" =>
                sql_n_params.sql = default_sql /\ InParams = Tuple(<<>>)
        /\ fn.kind \in {"params", "query_and_params", "query_only"} =>
                /\ sql_n_params.sql =
                        (IF fn.kind # "params" /\ fn.sql # PyNone
                         THEN fn.sql ELSE default_sql)
                /\ InParams =
                        (IF fn.kind = "query_only" THEN Tuple(<<>>)
                         ELSE IF fn.args # <<>> THEN Tuple(fn.args)
                         ELSE IF fn.kwargs # <<>> THEN Dict(fn.kwargs)
                         ELSE Tuple(<<>>))

\* C7 witness: query_and_params(None, x) resolved against a default statement
C7_Witness ==
    /\ sql_n_params.kind = "ok"
    /\ fn.kind = "query_and_params" /\ fn.sql = PyNone /\ fn.args # <<>>
    /\ sql_n_params.sql = DefaultStatement

SuppliesNoStatement ==
    \/ fn.kind \in {"none", "positional", "named"}
    \/ fn.kind = "params" /\ ~SuppliesBoth
    \/ fn.kind = "query_only" /\ fn.sql = PyNone

\* C8: without a default statement, a result that supplies none makes the
\* call fail with a RuntimeError naming the function; a resolved statement
\* is never None.
C8_MissingStatement ==
    /\ (default_sql = PyNone /\ SuppliesNoStatement /\ pc # "start") =>
            /\ Finished /\ RaisedTo("RuntimeError")
            /\ outcome.exc.func_named
    /\ sql_n_params.kind = "ok" => sql_n_params.sql.t = "str"

C8_Witness ==
    /\ default_sql = PyNone /\ Finished
    /\ fn.kind = "params" /\ fn.kwargs # <<>>
    /\ RaisedTo("RuntimeError")

\* C9: a query function that returns anything but None, a PrepareFuncResult
\* or one of the two sentinels makes the call raise a TypeError naming the
\* function, under every decorator.
C9_MalformedResult ==
    (fn.kind = "other" /\ pc # "start") =>
        /\ Finished /\ RaisedTo("TypeError")
        /\ outcome.exc.origin = "usage" /\ outcome.exc.func_named

C9_Witness ==
    fn.kind = "other" /\ Finished /\ mode = "sql_execute"
        /\ default_sql = DefaultStatement

\* C10: when a call ends with a usage, configuration or encoding error the
\* driver's execute has not been invoked.
C10_NoPartialExecution ==
    (outcome.kind = "raise"
        /\ outcome.exc.origin \in {"usage", "config", "encoding"})
    => execute_calls = 0

\* C10 witness: a call ended with an encoding error
C10_Witness ==
    /\ Finished /\ outcome.kind = "raise"
    /\ outcome.exc.origin = "encoding" /\ outcome.exc.cls = "TypeError"
    /\ sql_n_params.kind = "ok"

(***************************************************************************)
(* Automatic parameters.                                                   *)
(***************************************************************************)
\* what Python binds to the i-th declared parameter (1-based) of the query
\* function for the call func(*f_args, **f_kwargs)
BoundValue(i) ==
    IF i <= Len(f_args) THEN f_args[i]
    ELSE IF fn.names[i] \in Keys(f_kwargs) THEN DictGet(f_kwargs, fn.names[i])
    ELSE DictGet(fn.defaults, i - 1)

\* C11: when the query function returns PARAMS_APPLY_POSITIONAL (resp.
\* PARAMS_APPLY_NAMED) the resolved statement is the decorator default and
\* the parameters hold one value per declared parameter, the one bound at
\* call time or else the declared default, as a sequence in declared order
\* (resp. as a name-to-value mapping), however the caller mixed positional
\* and keyword arguments.
C11_AutoParameters ==
    (sql_n_params.kind = "ok" /\ fn.kind \in {"positional", "named"}) =>
        /\ sql_n_params.sql = default_sql
        /\ fn.kind = "positional" =>
            /\ InParams.style = "pos"
            /\ InParams.pos = [i \in 1..Len(fn.names) |-> BoundValue(i)]
        /\ fn.kind = "named" =>
            /\ InParams.style = "named"
            /\ Len(InParams.named) = Len(fn.names)
            /\ \A i \in 1..Len(fn.names) :
                /\ fn.names[i] \in Keys(InParams.named)
                /\ DictGet(InParams.named, fn.names[i]) = BoundValue(i)

\* C11 witness: f(a, ab=0) called as f(ab=2, a=v) resolved positionally
C11_Witness ==
    /\ sql_n_params.kind = "ok" /\ fn.kind = "positional"
    /\ f_args = <<>> /\ Len(f_kwargs) = 2 /\ f_kwargs[1].k = AB
    /\ InParams.pos[2] = PyInt(2)

(***************************************************************************)
(* noorm/_db_api_2_args_only.py and noorm/asyncpg/_asyncpg.py: the         *)
(* resolver of the drivers that bind positional parameters only, and the   *)
(* decorated call built on it.                                             *)
(***************************************************************************)
args_only_params(args) == PrepareFuncResult(PyNone, Tuple(args))

args_only_query_and_params(sql, args) == PrepareFuncResult(sql, Tuple(args))

args_only_query_only(sql) == PrepareFuncResult(sql, NoneParams)

\* func(*f_args, **f_kwargs) of a query function written for this resolver
args_only_func(f, args, kwargs) ==
    CASE f.kind = "cancel" ->
            Throw(Exc("CancelExecException", "func", FALSE, <<>>, NoIdx))
      [] f.kind = "none" -> Value("None", PyNone, NoneParams)
      [] f.kind = "other" -> Value("other", PyNone, NoneParams)
      [] f.kind = "positional" ->
            Value("PARAMS_APPLY_POSITIONAL", PyNone, NoneParams)
      [] f.kind = "named" -> Value("PARAMS_APPLY_NAMED", PyNone, NoneParams)
      [] f.kind = "params" -> args_only_params(f.args)
      [] f.kind = "query_and_params" -> args_only_query_and_params(f.sql, f.args)
      [] f.kind = "query_only" -> args_only_query_only(f.sql)

\* args_only_resolve that treats PARAMS_APPLY_NAMED as PARAMS_APPLY_POSITIONAL
args_only_resolve_forwarding(r, f, args, kwargs, default) ==
    LET checked(sql, ps) ==
            IF sql = PyNone
            THEN Raised(Exc("RuntimeError", "config", TRUE, <<>>, NoIdx))
            ELSE Returned(sql, ps)
    IN  CASE r.t \in {"PARAMS_APPLY_POSITIONAL", "PARAMS_APPLY_NAMED"} ->
                checked(default,
                        Tuple(args_as_tuple(f.names, f.defaults, args, kwargs)))
          [] r.t = "PrepareFuncResult" ->
                checked(IF r.sql = PyNone THEN default ELSE r.sql,
                        IF r.params = NoneParams THEN Tuple(<<>>) ELSE r.params)
          [] r.t = "None" -> checked(default, Tuple(<<>>))
          [] OTHER -> Raised(Exc("TypeError", "usage", TRUE, <<>>, NoIdx))

\* the if/elif chain that ends with `if sql is None`
args_only_resolve(r, f, args, kwargs, default) ==
    LET checked(sql, ps) ==
            IF sql = PyNone
            THEN Raised(Exc("RuntimeError", "config", TRUE, <<>>, NoIdx))
            ELSE Returned(sql, ps)
    IN  CASE r.t = "PARAMS_APPLY_POSITIONAL" ->
                checked(default,
                        Tuple(args_as_tuple(f.names, f.defaults, args, kwargs)))
          [] r.t = "PrepareFuncResult" ->
                checked(IF r.sql = PyNone THEN default ELSE r.sql,
                        IF r.params = NoneParams THEN Tuple(<<>>) ELSE r.params)
          [] r.t = "PARAMS_APPLY_NAMED" ->
                Raised(Exc("ValueError", "usage", TRUE, <<>>, NoIdx))
          [] r.t = "None" -> checked(default, Tuple(<<>>))
          [] OTHER -> Raised(Exc("TypeError", "usage", TRUE, <<>>, NoIdx))

args_only_req_sql_n_params(f, args, kwargs, default) ==
    LET r == args_only_func(f, args, kwargs)
    IN  IF r.t = "raise"
        THEN IF r.exc.cls = "CancelExecException" THEN Skipped ELSE Raised(r.exc)
        ELSE args_only_resolve(r, f, args, kwargs, default)

AsyncpgModes == {"sql_fetch_all", "sql_one_or_none", "sql_scalar_or_none",
                 "sql_fetch_scalars", "sql_execute"}

\* `if sql_and_params := req_sql_n_params(...)`: the query function is
\* invoked and its result resolved; nothing is encoded or rewritten
ArgsOnlyResolve ==
    /\ pc = "start"
    /\ LET r == args_only_req_sql_n_params(fn, f_args, f_kwargs, default_sql)
       IN  /\ sql_n_params' = r
           /\ func_calls' = func_calls + 1
           /\ CASE r.kind = "raise" ->
                    /\ outcome' = Raise(r.exc)
                    /\ pc' = "done"
                    /\ UNCHANGED sql_and_params
                [] r.kind = "skip" ->
                    /\ sql_and_params' = Skipped
                    /\ pc' = "skipped"
                    /\ UNCHANGED outcome
                [] r.kind = "ok" ->
                    /\ sql_and_params' = r
                    /\ pc' = "prepared"
                    /\ UNCHANGED outcome
    /\ UNCHANGED <<codec_vars, db_vars, sa_vars, reg_vars>>
    /\ UNCHANGED <<mode, default_sql, fn, f_args, f_kwargs, execute_calls,
                   driver, rows>>

\* await conn.fetch / fetchrow / fetchval / execute (sql, *params)
ArgsOnlyExecute ==
    /\ pc = "prepared"
    /\ execute_calls' = execute_calls + 1
    /\ IF driver.fails
       THEN /\ outcome' = Raise(Exc("PostgresError", "driver", FALSE,
                                    <<>>, NoIdx))
            /\ pc' = "done"
            /\ UNCHANGED rows
       ELSE /\ rows' = driver.rows
            /\ pc' = "executed"
            /\ UNCHANGED outcome
    /\ UNCHANGED <<codec_vars, db_vars, sa_vars, reg_vars>>
    /\ UNCHANGED <<mode, default_sql, fn, f_args, f_kwargs, sql_n_params,
                   sql_and_params, func_calls, driver>>

NextArgsOnly == ArgsOnlyResolve \/ ArgsOnlyExecute \/ ReturnRows \/ ReturnEmpty

\* query functions that pass positional parameters only
ArgsOnlyFns ==
    {Fn0(k, PyNone, <<>>, <<>>) : k \in {"cancel", "none", "other"}}
    \cup {Fn0("query_only", sql, <<>>, <<>>) : sql \in {PyNone, OtherStatement}}
    \cup {Fn0("params", PyNone, args, <<>>) : args \in PosParams(VarietyValues)}
    \cup {Fn0("query_and_params", sql, args, <<>>) :
            sql \in {PyNone, OtherStatement}, args \in PosParams(VarietyValues)}

InitArgsOnly ==
    /\ InitCall
    /\ mode \in AsyncpgModes
    /\ default_sql \in {PyNone, DefaultStatement}
    /\ \/ fn \in ArgsOnlyFns /\ f_args = <<>> /\ f_kwargs = <<>>
       \/ fn \in AutoFns /\ \E c \in AutoCalls : f_args = c[1] /\ f_kwargs = c[2]
    /\ driver \in {d \in Drivers : d.fails => d.rows = 0}

SpecArgsOnly == InitArgsOnly /\ [][NextArgsOnly]_vars

\* C12: with the resolver of the positional-only drivers, a query function
\* that returns PARAMS_APPLY_NAMED makes the call end with a ValueError
\* naming the function; no statement/parameter pair is produced from its
\* arguments and the driver is never called.
C12_NamedOnPositionalDriver ==
    (fn.kind = "named" /\ pc # "start") =>
        /\ Finished /\ RaisedTo("ValueError")
        /\ outcome.exc.func_named
        /\ sql_n_params.kind = "raise"
        /\ sql_and_params = NotYet
        /\ execute_calls = 0

\* C12 witness: f(a, ab=0) called with a keyword argument, a default
\* statement on the decorator, PARAMS_APPLY_NAMED returned
C12_Witness ==
    /\ fn.kind = "named" /\ Finished /\ func_calls = 1
    /\ default_sql = DefaultStatement /\ f_kwargs # <<>>
    /\ mode = "sql_fetch_all"

(***************************************************************************)
(* Encoding of parameter values.                                           *)
(***************************************************************************)
\* the text of some dates, datetimes and decimals, written out
EncodingTable ==
    { <<PyDate(20240209),
        PyStr(<<"2", "0", "2", "4", "-", "0", "2", "-", "0", "9">>)>>,
      <<PyDatetime(20240209, 70503),
        PyStr(<<"2", "0", "2", "4", "-", "0", "2", "-", "0", "9", " ",
                "0", "7", ":", "0", "5", ":", "0", "3">>)>>,
      <<PyDecimal(12345, 4), PyStr(<<"1", ".", "2", "3", "4", "5">>)>>,
      <<PyDecimal(10, 0), PyStr(<<"1", "0">>)>> }

\* w is what the driver ought to receive for the parameter value v
EncodedAs(v, w) ==
    CASE v.t = "bool" -> w = PyInt(IF v = PyBool(TRUE) THEN 1 ELSE 0)
      [] v.t \in {"date", "datetime", "Decimal"} -> <<v, w>> \in EncodingTable
      [] v.t \in {"int", "str", "float", "bytes", "NoneType", "conform"} -> w = v
      [] OTHER -> FALSE

\* the parameter values of the resolved pair
InValues ==
    {InParams.pos[i] : i \in 1..Len(InParams.pos)}
        \cup {InParams.named[i].v : i \in 1..Len(InParams.named)}

\* same statement, same slots, each value replaced by its encoding
SameStatementEncodedSlots ==
    /\ OutSql = InSql
    /\ OutParams.style = InParams.style
    /\ Len(OutParams.pos) = Len(InParams.pos)
    /\ \A i \in 1..Len(InParams.pos) :
            EncodedAs(InParams.pos[i], OutParams.pos[i])
    /\ Len(OutParams.named) = Len(InParams.named)
    /\ \A i \in 1..Len(InParams.named) :
            /\ InParams.named[i].k \in Keys(OutParams.named)
            /\ EncodedAs(InParams.named[i].v,
                         DictGet(OutParams.named, InParams.named[i].k))

\* C13 as stated: when no parameter is a container of several elements the
\* statement handed to the driver is the resolved statement and the
\* parameter container keeps its slots, each value replaced by its encoding
\* (bool to 0/1, date and datetime to ISO text, Decimal to its text, the
\* other scalars unchanged).
C13_NoExpansionFrame_Stated ==
    (sql_and_params.kind = "ok"
        /\ \A v \in InValues : ~(IsContainer(v) /\ Len(v.e) >= 2))
    => SameStatementEncodedSlots

\* C13: when no parameter is a container (of any size, empty and
\* one-element containers included) the statement handed to the driver is
\* the resolved statement and the parameter container keeps its slots, each
\* value replaced by its encoding (bool to 0/1, date and datetime to ISO
\* text, Decimal to its text, the other scalars unchanged).
C13_NoExpansionFrame ==
    (sql_and_params.kind = "ok" /\ \A v \in InValues : ~IsContainer(v))
    => SameStatementEncodedSlots

\* C13 witness: parameters (True, Decimal("1.2345")) reach the driver as
\* (1, "1.2345")
C13_Witness ==
    /\ pc = "prepared"
    /\ InParams = Tuple(<<PyBool(TRUE), PyDecimal(12345, 4)>>)
    /\ OutParams = Tuple(<<PyInt(1), PyStr(<<"1", ".", "2", "3", "4", "5">>)>>)
    /\ OutSql = InSql

\* the types of the values a statement parameter may have
ScalarTypes ==
    {"bool", "int", "str", "float", "bytes", "NoneType", "date", "datetime",
     "Decimal", "conform"}

\* a mapping or another object that is neither a scalar nor a container
IsUnencodable(v) == v.t \notin ScalarTypes /\ ~IsContainer(v)

\* the 0-based indexes of the elements of a container that are no scalars
FailingElements(v) ==
    IF IsContainer(v)
    THEN {i - 1 : i \in {j \in 1..Len(v.e) : v.e[j].t \notin ScalarTypes}}
    ELSE {}

\* the parameters of the resolved pair as (identification, value) pairs: the
\* 0-based index as text, or the name
IdentifiedParams ==
    {<<IntToStr(i - 1), InParams.pos[i]>> : i \in 1..Len(InParams.pos)}
        \cup {<<InParams.named[i].k, InParams.named[i].v>> :
                i \in 1..Len(InParams.named)}

HasBadParameter ==
    \E p \in IdentifiedParams : IsUnencodable(p[2]) \/ FailingElements(p[2]) # {}

\* C14: when a parameter is a mapping or an unencodable object, or a
\* container with an element that cannot be encoded (a nested container
\* included), the call raises a TypeError that identifies such a parameter by
\* index or name and, for a container, the index of a failing element; no
\* statement/parameter pair is produced and nothing is executed.
C14_EncodingErrors ==
    (sql_n_params.kind = "ok" /\ HasBadParameter /\ pc # "resolved") =>
        /\ Finished /\ RaisedTo("TypeError")
        /\ outcome.exc.origin = "encoding"
        /\ sql_and_params = NotYet
        /\ execute_calls = 0
        /\ \E p \in IdentifiedParams :
            /\ outcome.exc.param = p[1]
            /\ \/ IsUnencodable(p[2]) /\ outcome.exc.idx = NoIdx
               \/ outcome.exc.idx \in FailingElements(p[2])

\* C14 witness: the second positional parameter is a list whose second
\* element is a list
C14_Witness ==
    /\ Finished /\ RaisedTo("TypeError")
    /\ Len(InParams.pos) = 2
    /\ InParams.pos[2] = PyList(<<PyInt(1), PyList(<<>>)>>)
    /\ outcome.exc.param = <<"1">> /\ outcome.exc.idx = 1

(***************************************************************************)
(* noorm/_sqlite_common.py: the scalar decoders, and a value's way through *)
(* _encode_val and the decoder built for its type.                         *)
(***************************************************************************)
MaxScale == 2       \* fractional digits of the explored Decimal values

ValueError == PyVal("ValueError", 0, 0, <<>>, <<>>)

\* issubclass(a, b) among the types of the model
issubclass(a, b) ==
    \/ a = b
    \/ a = "bool" /\ b = "int"
    \/ a = "datetime" /\ b = "date"

DigitValue(c) == CHOOSE i \in 0..9 : DigitChar[i + 1] = c

IsDigits(s) == Len(s) > 0 /\ \A i \in 1..Len(s) : s[i] \in Digits

\* int(s) for a text of decimal digits
RECURSIVE ParseNat(_)
ParseNat(s) ==
    IF Len(s) = 0 THEN 0
    ELSE 10 * ParseNat(SubSeq(s, 1, Len(s) - 1)) + DigitValue(s[Len(s)])

\* s is YYYY-MM-DD
IsIsoDate(s) ==
    /\ Len(s) = 10
    /\ s[5] = "-" /\ s[8] = "-"
    /\ IsDigits(SubSeq(s, 1, 4)) /\ IsDigits(SubSeq(s, 6, 7))
    /\ IsDigits(SubSeq(s, 9, 10))

\* s is HH:MM:SS
IsIsoTime(s) ==
    /\ Len(s) = 8
    /\ s[3] = ":" /\ s[6] = ":"
    /\ IsDigits(SubSeq(s, 1, 2)) /\ IsDigits(SubSeq(s, 4, 5))
    /\ IsDigits(SubSeq(s, 7, 8))

ParseYmd(s) ==
    ParseNat(SubSeq(s, 1, 4)) * 10000 + ParseNat(SubSeq(s, 6, 7)) * 100
        + ParseNat(SubSeq(s, 9, 10))

ParseHms(s) ==
    ParseNat(SubSeq(s, 1, 2)) * 10000 + ParseNat(SubSeq(s, 4, 5)) * 100
        + ParseNat(SubSeq(s, 7, 8))

date_fromisoformat(val) ==
    IF val.t = "str" /\ IsIsoDate(val.s) THEN PyDate(ParseYmd(val.s))
    ELSE ValueError

\* a date alone, or a date, one separator character and a time
datetime_fromisoformat(val) ==
    IF val.t = "str" /\ IsIsoDate(val.s) THEN PyDatetime(ParseYmd(val.s), 0)
    ELSE IF /\ val.t = "str" /\ Len(val.s) = 19
            /\ IsIsoDate(SubSeq(val.s, 1, 10))
            /\ IsIsoTime(SubSeq(val.s, 12, 19))
    THEN PyDatetime(ParseYmd(SubSeq(val.s, 1, 10)),
                    ParseHms(SubSeq(val.s, 12, 19)))
    ELSE ValueError

\* Decimal(val) for an int or for the text digits[.digits]
Decimal_new(val) ==
    IF val.t \in {"int", "bool"} THEN PyDecimal(val.n, 0)
    ELSE IF val.t = "str" /\ IsDigits(val.s) THEN PyDecimal(ParseNat(val.s), 0)
    ELSE IF val.t = "str" /\ IndexOf(val.s, ".", 1) # 0
    THEN LET dot == IndexOf(val.s, ".", 1)
             int_part == SubSeq(val.s, 1, dot - 1)
             frac_part == SubSeq(val.s, dot + 1, Len(val.s))
         IN  IF IsDigits(int_part) /\ IsDigits(frac_part)
             THEN PyDecimal(ParseNat(int_part \o frac_part), Len(frac_part))
             ELSE ValueError
    ELSE ValueError

\* type_(val) for the types that make_scalar_decoder converts to
Construct(type_, val) ==
    CASE type_ = "bool" ->
            PyBool(IF val.t = "str" THEN Len(val.s) > 0 ELSE val.n # 0)
      [] type_ = "Decimal" -> Decimal_new(val)
      [] type_ = "int" ->
            IF val.t = "str" /\ IsDigits(val.s) THEN PyInt(ParseNat(val.s))
            ELSE IF val.t \in {"bool", "int"} THEN PyInt(val.n)
            ELSE ValueError
      [] type_ = "str" ->
            IF val.t = "int" THEN PyStr(IntToStr(val.n)) ELSE ValueError
      [] OTHER -> ValueError

_decode_date(val) ==
    IF val = PyNone THEN PyNone
    ELSE IF val.t = "datetime" THEN PyDate(val.n)
    ELSE IF val.t = "date" THEN val
    ELSE date_fromisoformat(val)

_decode_datetime(val) ==
    IF val = PyNone THEN PyNone
    ELSE IF val.t = "datetime" THEN val
    ELSE IF val.t = "date" THEN PyDatetime(val.n, 0)
    ELSE datetime_fromisoformat(val)

_as_is(val) == val

_as_is_val(type_, val) ==
    IF val = PyNone THEN PyNone
    ELSE IF issubclass(val.t, type_) THEN val
    ELSE Construct(type_, val)

\* the decoder make_scalar_decoder picks for type_
DecoderTypes == <<"int", "float", "str", "bool", "Decimal">>

\* make_scalar_decoder that tries date before the types of the loop
make_scalar_decoder_date_first(type_) ==
    IF type_ = "Any" THEN [f |-> "_as_is", ttype |-> ""]
    ELSE IF issubclass("date", type_) \/ issubclass("datetime", type_)
    THEN [f |-> "_decode_date", ttype |-> ""]
    ELSE IF \E i \in 1..Len(DecoderTypes) : issubclass(DecoderTypes[i], type_)
    THEN LET i == CHOOSE k \in 1..Len(DecoderTypes) :
                    /\ issubclass(DecoderTypes[k], type_)
                    /\ \A j \in 1..(k - 1) : ~issubclass(DecoderTypes[j], type_)
         IN  [f |-> "_as_is_val", ttype |-> DecoderTypes[i]]
    ELSE [f |-> "_as_is", ttype |-> ""]

make_scalar_decoder(type_) ==
    IF type_ = "Any" THEN [f |-> "_as_is", ttype |-> ""]
    ELSE IF \E i \in 1..Len(DecoderTypes) : issubclass(DecoderTypes[i], type_)
    THEN LET i == CHOOSE k \in 1..Len(DecoderTypes) :
                    /\ issubclass(DecoderTypes[k], type_)
                    /\ \A j \in 1..(k - 1) : ~issubclass(DecoderTypes[j], type_)
         IN  [f |-> "_as_is_val", ttype |-> DecoderTypes[i]]
    ELSE IF issubclass("date", type_) THEN [f |-> "_decode_date", ttype |-> ""]
    ELSE IF issubclass("datetime", type_)
    THEN [f |-> "_decode_datetime", ttype |-> ""]
    ELSE [f |-> "_as_is", ttype |-> ""]

\* decoder(val)
ApplyDecoder(decoder, val) ==
    CASE decoder.f = "_as_is" -> _as_is(val)
      [] decoder.f = "_as_is_val" -> _as_is_val(decoder.ttype, val)
      [] decoder.f = "_decode_date" -> _decode_date(val)
      [] decoder.f = "_decode_datetime" -> _decode_datetime(val)

Codec(step, type_, v, enc, dec) ==
    [pc |-> step, type_ |-> type_, v |-> v, enc |-> enc, dec |-> dec]

\* _encode_val(v): what is handed to the driver
Encode ==
    /\ codec.pc = "value"
    /\ codec' = Codec("encoded", codec.type_, codec.v, _encode_val(codec.v),
                      codec.dec)
    /\ UNCHANGED <<call_vars, db_vars, sa_vars, reg_vars>>

\* make_scalar_decoder(type_)(enc): what the caller receives
Decode ==
    /\ codec.pc = "encoded"
    /\ codec' = Codec("decoded", codec.type_, codec.v, codec.enc,
                      ApplyDecoder(make_scalar_decoder(codec.type_), codec.enc))
    /\ UNCHANGED <<call_vars, db_vars, sa_vars, reg_vars>>

NextCodec == Encode \/ Decode

Dates == {y * 10000 + m * 100 + d : y \in {1, 999, 2024}, m \in {1, 2, 12},
                                    d \in {1, 9, 28}}
Times == {0, 70503, 120000, 235959}

\* the values of each type, None included
ValuesOf(type_) ==
    {PyNone} \cup
    CASE type_ = "bool" -> {PyBool(TRUE), PyBool(FALSE)}
      [] type_ = "date" -> {PyDate(ymd) : ymd \in Dates}
      [] type_ = "datetime" ->
            {PyDatetime(ymd, hms) : ymd \in {10101, 20240209}, hms \in Times}
      [] type_ = "Decimal" ->
            {PyDecimal(coef, scale) :
                coef \in {0, 5, 10, 105, 12345}, scale \in 0..MaxScale}
      [] type_ = "int" -> {PyInt(0), PyInt(7)}
      [] type_ = "str" -> {PyStr(<<>>), PyStr(<<"x">>)}

InitCodec ==
    /\ CallIdle /\ DbIdle /\ SaIdle /\ RegIdle
    /\ \E type_ \in {"bool", "date", "datetime", "Decimal", "int", "str"} :
        \E v \in ValuesOf(type_) :
            codec = Codec("value", type_, v, PyNone, PyNone)

SpecCodec == InitCodec /\ [][NextCodec]_vars

\* C15: for each type T of bool, date, datetime and Decimal and each value
\* v of T or None, the decoder built for T applied to the encoded value
\* gives v back: make_scalar_decoder(T)(_encode_val(v)) = v.
C15_RoundTrip ==
    (codec.pc = "decoded"
        /\ codec.type_ \in {"bool", "date", "datetime", "Decimal"})
    => codec.dec = codec.v

\* C15 witness: a datetime went through its text form and came back
C15_Witness ==
    /\ codec.pc = "decoded" /\ codec.type_ = "datetime"
    /\ codec.v = PyDatetime(20240209, 70503)
    /\ codec.enc.t = "str" /\ Len(codec.enc.s) = 19
    /\ codec.dec = codec.v

(***************************************************************************)
(* noorm/sqlite3/_sqlite3.py: set_default_db and default_db.               *)
(***************************************************************************)
MaxDepth == 2       \* nested `with set_default_db(...)` blocks

Connections == {"conn1", "conn2"}

\* set_default_db.__init__: the list afterwards, and self.prev
set_default_db__init__(conns, conn) ==
    LET l == IF conns = <<>> THEN <<"None">> ELSE conns
    IN  [conns |-> [l EXCEPT ![Len(l)] = conn], prev |-> l[Len(l)]]

\* __enter__ that leaves the enclosing entry as __init__ overwrote it
set_default_db__enter___no_restore(conns, prev) ==
    Append(conns, conns[Len(conns)])

\* set_default_db.__enter__
set_default_db__enter__(conns, prev) ==
    LET curr == conns[Len(conns)]
    IN  Append([conns EXCEPT ![Len(conns)] = prev], curr)

\* set_default_db.__exit__
set_default_db__exit__(conns) == SubSeq(conns, 1, Len(conns) - 1)

\* nm.set_default_db(conn) as a plain call
SetDefault ==
    /\ \E conn \in Connections \cup {"None"} :
        /\ _conns' = set_default_db__init__(_conns, conn).conns
        /\ blocks' = [blocks EXCEPT ![Len(blocks)].conn = conn]
    /\ UNCHANGED db_call
    /\ UNCHANGED <<call_vars, codec_vars, sa_vars, reg_vars>>

\* `with nm.set_default_db(conn):` is entered
WithEnter ==
    /\ Len(blocks) <= MaxDepth
    /\ \E conn \in Connections \cup {"None"} :
        /\ LET made == set_default_db__init__(_conns, conn)
           IN  _conns' = set_default_db__enter__(made.conns, made.prev)
        /\ blocks' = Append(blocks, [conn |-> conn, exits |-> 0])
    /\ UNCHANGED db_call
    /\ UNCHANGED <<call_vars, codec_vars, sa_vars, reg_vars>>

\* the innermost `with` block is left, normally or by an exception
WithExit ==
    /\ Len(blocks) > 1
    /\ _conns' = set_default_db__exit__(_conns)
    /\ blocks' = [SubSeq(blocks, 1, Len(blocks) - 1)
                    EXCEPT ![Len(blocks) - 1].exits = 1]
    /\ UNCHANGED db_call
    /\ UNCHANGED <<call_vars, codec_vars, sa_vars, reg_vars>>

\* default_db.wrapper: a call of a function decorated with @nm.default_db
CallDefaultDb ==
    /\ IF _conns = <<>> \/ _conns[Len(_conns)] = "None"
       THEN db_call' = [kind |-> "raise", conn |-> "unset",
                        innermost |-> blocks[Len(blocks)].conn]
       ELSE db_call' = [kind |-> "called", conn |-> _conns[Len(_conns)],
                        innermost |-> blocks[Len(blocks)].conn]
    /\ UNCHANGED <<_conns, blocks>>
    /\ UNCHANGED <<call_vars, codec_vars, sa_vars, reg_vars>>

NextDefaultDb == SetDefault \/ WithEnter \/ WithExit \/ CallDefaultDb

InitDefaultDb == CallIdle /\ CodecIdle /\ DbIdle /\ SaIdle /\ RegIdle

SpecDefaultDb == InitDefaultDb /\ [][NextDefaultDb]_vars

\* C16: a default_db-decorated function is called with the connection of
\* the innermost active set_default_db: the one set last, by a plain call or
\* by a `with` block, in the innermost open block, and once a block is left
\* the one that was the default when it was entered; when no default is set
\* or it is None the call raises RuntimeError and the wrapped function is
\* not invoked.
C16_DefaultConnection ==
    /\ db_call.kind = "called" =>
            /\ db_call.conn = db_call.innermost
            /\ db_call.conn \in Connections
    /\ db_call.kind = "raise" => db_call.innermost \in {"unset", "None"}

\* C16 witness: inside a block of conn1, after an inner block was left, the
\* function is called with conn1
C16_Witness ==
    /\ db_call.kind = "called" /\ db_call.conn = "conn1"
    /\ Len(blocks) = 2 /\ blocks[2].conn = "conn1" /\ blocks[2].exits = 1
    /\ _conns = <<"None", "conn1">>

(***************************************************************************)
(* noorm/_sqlalchemy_common.py and noorm/sqlalchemy_sync: the decorated    *)
(* call of the SQLAlchemy adapters.  The query function returns a          *)
(* statement object; fn.stmt is its construct.                             *)
(***************************************************************************)
\* select() and union() are GenerativeSelect; insert(), update(), delete()
\* and text() are Executable but no GenerativeSelect
StatementKinds == {"select", "union", "insert", "update", "delete", "text"}

IsGenerativeSelect(stmt) == stmt \in {"select", "union"}

GeneratorModes == {"sql_iterate", "sql_iterate_scalars"}

\* what the query function of an SQLAlchemy adapter does
SaFn(kind, stmt) == [kind |-> kind, stmt |-> stmt]

\* _commit_if_needed: the number of commits it adds
_commit_if_needed(sql_stmt, no_commit_) ==
    IF ~IsGenerativeSelect(sql_stmt) /\ ~no_commit_ THEN 1 ELSE 0

\* req_sql_n_params: the query function is invoked; a cancelled call gives
\* None, a result that is no Executable a TypeError
SaResolve ==
    /\ pc = "start"
    /\ func_calls' = func_calls + 1
    /\ CASE fn.kind = "cancel" ->
                /\ pc' = "skipped"
                /\ UNCHANGED outcome
         [] fn.kind = "other" ->
                /\ outcome' = Raise(Exc("TypeError", "usage", TRUE, <<>>, NoIdx))
                /\ pc' = "done"
         [] fn.kind = "stmt" ->
                /\ pc' = "resolved"
                /\ UNCHANGED outcome
    /\ UNCHANGED <<mode, default_sql, fn, f_args, f_kwargs, sql_n_params,
                   sql_and_params, execute_calls, driver, rows>>
    /\ UNCHANGED <<codec_vars, db_vars, sa_vars, reg_vars>>

\* session.execute(sql_stmt), with .one_or_none() / .scalar_one_or_none()
\* where the wrapper chains it; a generator then waits at its first row
SaExecute ==
    /\ pc = "resolved"
    /\ execute_calls' = execute_calls + 1
    /\ IF driver.fails
       THEN /\ outcome' = Raise(Exc("DBAPIError", "driver", FALSE, <<>>, NoIdx))
            /\ pc' = "done"
            /\ UNCHANGED rows
       ELSE IF mode \in {"sql_one_or_none", "sql_scalar_or_none"}
               /\ driver.rows > 1
       THEN /\ outcome' = Raise(Exc("MultipleResultsFound", "result", FALSE,
                                    <<>>, NoIdx))
            /\ pc' = "done"
            /\ rows' = driver.rows
       ELSE /\ rows' = driver.rows
            /\ IF mode \in GeneratorModes
               THEN pc' = "iterating" /\ outcome' = Return("generator", 0)
               ELSE pc' = "executed" /\ UNCHANGED outcome
    /\ UNCHANGED <<mode, default_sql, fn, f_args, f_kwargs, sql_n_params,
                   sql_and_params, func_calls, driver>>
    /\ UNCHANGED <<codec_vars, db_vars, sa_vars, reg_vars>>

\* `yield ...`: the consumer of the generator receives the next row
SaYield ==
    /\ pc = "iterating"
    /\ outcome.n < rows
    /\ outcome' = Return("generator", outcome.n + 1)
    /\ UNCHANGED <<mode, default_sql, fn, f_args, f_kwargs, pc, sql_n_params,
                   sql_and_params, func_calls, execute_calls, driver, rows>>
    /\ UNCHANGED <<codec_vars, db_vars, sa_vars, reg_vars>>

\* the consumer drops or closes the generator while it is suspended at a
\* yield: the rest of its body never runs
SaClose ==
    /\ pc = "iterating"
    /\ outcome.n >= 1
    /\ pc' = "done"
    /\ UNCHANGED <<mode, default_sql, fn, f_args, f_kwargs, sql_n_params,
                   sql_and_params, func_calls, execute_calls, driver, rows,
                   outcome>>
    /\ UNCHANGED <<codec_vars, db_vars, sa_vars, reg_vars>>

\* _commit_if_needed(session, sql_stmt, no_commit) and the return: after the
\* rows were collected, or after the generator's loop ran out of rows
SaCommitIfNeeded ==
    /\ \/ pc = "executed"
       \/ pc = "iterating" /\ outcome.n = rows
    /\ commits' = commits + _commit_if_needed(fn.stmt, no_commit)
    /\ outcome' = ReturnWithRows(mode, rows)
    /\ pc' = "done"
    /\ UNCHANGED <<mode, default_sql, fn, f_args, f_kwargs, sql_n_params,
                   sql_and_params, func_calls, execute_calls, driver, rows>>
    /\ UNCHANGED <<codec_vars, db_vars, reg_vars>>
    /\ UNCHANGED no_commit

NextCommit ==
    SaResolve \/ SaExecute \/ SaYield \/ SaClose \/ SaCommitIfNeeded
        \/ ReturnEmpty

InitCommit ==
    /\ CodecIdle /\ DbIdle /\ RegIdle
    /\ mode \in Modes
    /\ default_sql = PyNone /\ f_args = <<>> /\ f_kwargs = <<>>
    /\ fn \in {SaFn("cancel", "select"), SaFn("other", "select")}
                \cup {SaFn("stmt", stmt) : stmt \in StatementKinds}
    /\ pc = "start"
    /\ sql_n_params = NotYet /\ sql_and_params = NotYet
    /\ func_calls = 0 /\ execute_calls = 0
    /\ driver \in {d \in Drivers : d.fails => d.rows = 0}
    /\ rows = 0
    /\ outcome = NoOutcome
    /\ no_commit \in BOOLEAN
    /\ commits = 0

SpecCommit == InitCommit /\ [][NextCommit]_vars

IsDml(stmt) == stmt \in {"insert", "update", "delete"}

\* session.execute(sql_stmt) was invoked and returned
ExecutedStatement == execute_calls = 1 /\ ~driver.fails

\* C17: once a decorated call of an SQLAlchemy adapter has executed its
\* statement and is over, session.commit() has been invoked exactly once if
\* the statement is an insert, update or delete and no_commit is False; it
\* is never invoked for a select or union, with no_commit True, or in a
\* cancelled call.
C17_CommitPolicy ==
    /\ (Finished /\ ExecutedStatement /\ fn.kind = "stmt" /\ IsDml(fn.stmt)
            /\ ~no_commit) => commits = 1
    /\ (fn.kind = "cancel" \/ no_commit
            \/ (fn.kind = "stmt" /\ IsGenerativeSelect(fn.stmt))) => commits = 0

(***************************************************************************)
(* noorm/registry.py: the statistics of the main process, its event        *)
(* listeners, and the events of a child process that reach it through the  *)
(* datagram socket.  In the main process on_event runs in the thread that  *)
(* finished a decorated call and, for the datagrams of a child, in the     *)
(* thread of _main_process_socket_listener; the two threads share          *)
(* stat_by_name.                                                           *)
(***************************************************************************)
MaxCalls == 2       \* decorated calls made by the main thread
MaxChildCalls == 1  \* decorated calls made by the child process
MaxListeners == 2   \* registered event listeners
Port == 1           \* the port init_multiprocess_registry binds

\* MetricsCollector.finish: the event of a decorated call.  A generator
\* calls mc.finish(None) when it fetches its first row, before mc.tuples is
\* set; the later finish(exc_type) of __exit__ finds start_time None
MetricsCollector_finish(call) ==
    IF call.shape = "generator" /\ call.first_row
    THEN FuncCallEvent(call.name, 0, "")
    ELSE FuncCallEvent(call.name,
                       IF call.how = "return" THEN call.tuples ELSE 0,
                       IF call.how = "raise" THEN call.error ELSE "")

\* on_event, lines 119-124: stat.calls, stat.tuples and stat.fails
on_event_counts(stats, event) ==
    [stats EXCEPT ![event.func_name] =
        [@ EXCEPT !.calls = @ + 1,
                  !.tuples = @ + event.tuples,
                  !.fails = IF event.error # "" THEN @ + 1 ELSE @]]

\* on_event, lines 125-127: the assignment of fails_by_error[event.error]
\* from the value that .get(event.error, 0) returned
on_event_store(stats, event, read) ==
    [stats EXCEPT ![event.func_name].fails_by_error[event.error] = read + 1]

\* the callbacks loop without its try/except: the first listener that
\* raises ends it, and the exception leaves on_event
on_event_callbacks_unguarded(listeners, event, thread) ==
    LET raising == {i \in 1..Len(listeners) : listeners[i] = "raises"}
        last == IF raising = {} THEN Len(listeners)
                ELSE CHOOSE i \in raising : \A j \in raising : i <= j
    IN  [calls |-> [i \in 1..last |->
                        [listener |-> i, event |-> event, thread |-> thread]],
         raised |-> raising # {}]

\* on_event, lines 129-133: every listener is called, in registration
\* order; what a listener raises is swallowed
on_event_callbacks(listeners, event, thread) ==
    [calls |-> [i \in 1..Len(listeners) |->
                    [listener |-> i, event |-> event, thread |-> thread]],
     raised |-> FALSE]

\* the entry of `finished` for a call of the main thread: what its caller
\* sees, given whether on_event let an exception out
FinishedMain(call, event, raised) ==
    [proc |-> "main", call |-> call, event |-> event, sent |-> FALSE,
     how |-> IF raised THEN "raise" ELSE call.how,
     error |-> IF raised THEN "ListenerError" ELSE call.error]

FinishedChild(call, event, sent) ==
    [proc |-> "child", call |-> call, event |-> event, sent |-> sent,
     how |-> call.how, error |-> call.error]

\* the rest of on_event in thread t once the statistics are written: the
\* listeners are called and the thread leaves on_event
LeaveOnEvent(t, event, call) ==
    LET cb == on_event_callbacks(_event_listeners, event, t)
    IN  /\ delivered' = delivered \o cb.calls
        /\ threads' = [threads EXCEPT ![t] = ThreadIdle]
        /\ IF t = "main"
           THEN finished' = Append(finished, FinishedMain(call, event, cb.raised))
           ELSE UNCHANGED finished

\* on_event(event) in thread t of the main process, up to the point where
\* fails_by_error.get(...) has returned (a thread switch may follow the
\* call), or to its end for an event without error
EnterOnEvent(t, event, call) ==
    /\ stat_by_name' = on_event_counts(stat_by_name, event)
    /\ IF event.error # ""
       THEN /\ threads' = [threads EXCEPT ![t] =
                    [pc |-> "store", event |-> event, call |-> call,
                     read |-> stat_by_name[event.func_name]
                                    .fails_by_error[event.error]]]
            /\ UNCHANGED <<delivered, finished>>
       ELSE LeaveOnEvent(t, event, call)

\* on_event in thread t resumes: fails_by_error[event.error] is assigned and
\* the listeners are called
ResumeOnEvent(t) ==
    /\ threads[t].pc = "store"
    /\ stat_by_name' = on_event_store(stat_by_name, threads[t].event,
                                      threads[t].read)
    /\ LeaveOnEvent(t, threads[t].event, threads[t].call)

MainFinished == {i \in 1..Len(finished) : finished[i].proc = "main"}
ChildFinished == {i \in 1..Len(finished) : finished[i].proc = "child"}

\* the ways a decorated call of the main thread ends
MainCalls ==
    {Call("f", "list", "return", "", MaxRows, FALSE),
     Call("f", "list", "cancel", "", 0, FALSE),
     Call("f", "generator", "raise", "KeyError", 0, TRUE),
     Call("g", "list", "raise", "ValueError", 0, FALSE)}

\* the ways a decorated call of the child process ends
ChildCalls ==
    {Call("f", "list", "return", "", 1, FALSE),
     Call("g", "list", "raise", "ValueError", 0, FALSE)}

\* get_registry().add_event_listener(callback), before the first call
AddEventListener ==
    /\ Len(_event_listeners) < MaxListeners
    /\ finished = <<>> /\ threads["main"].pc = "idle"
    /\ \E behaviour \in {"ok", "raises"} :
        _event_listeners' = Append(_event_listeners, behaviour)
    /\ UNCHANGED <<stat_by_name, delivered, environ, _mp_listener_started,
                   _mp_socket, threads, child, finished>>
    /\ UNCHANGED <<call_vars, codec_vars, db_vars, sa_vars, mc, mp>>

\* a decorated call of the main thread reaches MetricsCollector.finish,
\* which calls on_event with its event
MainCall ==
    /\ threads["main"].pc = "idle"
    /\ Cardinality(MainFinished) < MaxCalls
    /\ \E call \in MainCalls :
        EnterOnEvent("main", MetricsCollector_finish(call), call)
    /\ UNCHANGED <<_event_listeners, environ, _mp_listener_started,
                   _mp_socket, child>>
    /\ UNCHANGED <<call_vars, codec_vars, db_vars, sa_vars, mc, mp>>

MainStore ==
    /\ ResumeOnEvent("main")
    /\ UNCHANGED <<_event_listeners, environ, _mp_listener_started,
                   _mp_socket, child>>
    /\ UNCHANGED <<call_vars, codec_vars, db_vars, sa_vars, mc, mp>>

\* init_multiprocess_registry in the main process
InitMultiprocessRegistry ==
    /\ ~_mp_listener_started
    /\ environ' = Port
    /\ _mp_listener_started' = TRUE
    /\ UNCHANGED <<stat_by_name, _event_listeners, delivered, _mp_socket,
                   threads, child, finished>>
    /\ UNCHANGED <<call_vars, codec_vars, db_vars, sa_vars, mc, mp>>

\* the child process starts and builds its Registry: _mp_port is
\* NOORM_REGISTRY_PORT as the child inherited it, or 0
StartChild ==
    /\ ~child.started
    /\ child' = [child EXCEPT !.started = TRUE, !._mp_port = environ]
    /\ UNCHANGED <<stat_by_name, _event_listeners, delivered, environ,
                   _mp_listener_started, _mp_socket, threads, finished>>
    /\ UNCHANGED <<call_vars, codec_vars, db_vars, sa_vars, mc, mp>>

\* a decorated call of the child finishes: on_event of the child's Registry
\* sends the event to the main process if it knows a port, and counts
\* nothing
ChildCall ==
    /\ child.started
    /\ child.calls < MaxChildCalls
    /\ \E call \in ChildCalls :
        LET event == MetricsCollector_finish(call)
        IN  /\ _mp_socket' = IF child._mp_port # 0
                             THEN Append(_mp_socket, event) ELSE _mp_socket
            /\ finished' = Append(finished,
                                  FinishedChild(call, event, child._mp_port # 0))
    /\ child' = [child EXCEPT !.calls = @ + 1]
    /\ UNCHANGED <<stat_by_name, _event_listeners, delivered, environ,
                   _mp_listener_started, threads>>
    /\ UNCHANGED <<call_vars, codec_vars, db_vars, sa_vars, mc, mp>>

\* _main_process_socket_listener: recvfrom returns a datagram that holds a
\* FuncCallEvent, and on_event is called with it
ListenerReceive ==
    /\ _mp_listener_started
    /\ threads["listener"].pc = "idle"
    /\ _mp_socket # <<>>
    /\ _mp_socket' = Tail(_mp_socket)
    /\ EnterOnEvent("listener", Head(_mp_socket), NoCall)
    /\ UNCHANGED <<_event_listeners, environ, _mp_listener_started, child>>
    /\ UNCHANGED <<call_vars, codec_vars, db_vars, sa_vars, mc, mp>>

ListenerStore ==
    /\ ResumeOnEvent("listener")
    /\ UNCHANGED <<_event_listeners, environ, _mp_listener_started,
                   _mp_socket, child>>
    /\ UNCHANGED <<call_vars, codec_vars, db_vars, sa_vars, mc, mp>>

NextRegistry ==
    AddEventListener \/ MainCall \/ MainStore \/ InitMultiprocessRegistry
        \/ StartChild \/ ChildCall \/ ListenerReceive \/ ListenerStore

InitRegistry == CallIdle /\ CodecIdle /\ DbIdle /\ SaIdle /\ RegIdle

SpecRegistry == InitRegistry /\ [][NextRegistry]_vars

\* no thread of the main process is inside on_event
Quiescent == \A t \in DOMAIN threads : threads[t].pc = "idle"

\* the finished calls of the main thread for one function name
MainCallsOf(name) == {i \in MainFinished : finished[i].call.name = name}

RECURSIVE SumOver(_, _)
SumOver(f, S) ==
    IF S = {} THEN 0
    ELSE LET x == CHOOSE y \in S : TRUE IN f[x] + SumOver(f, S \ {x})

\* the tuples a finished call returned to its caller
ReturnedTuples(name) ==
    SumOver([i \in MainFinished |->
                IF finished[i].how = "return" THEN finished[i].call.tuples ELSE 0],
            MainCallsOf(name))

\* C18: in the main process every finished call of a decorated function
\* adds 1 to Stat.calls of its name; a call that raised also adds 1 to
\* Stat.fails and 1 to fails_by_error of its exception class; a cancelled
\* call is a non-failing call with 0 tuples; and fails is the sum of
\* fails_by_error and never exceeds calls.
C18_RegistryStatistics ==
    Quiescent =>
        \A name \in FuncNames :
            LET stat == stat_by_name[name]
                raised == {i \in MainCallsOf(name) : finished[i].how = "raise"}
            IN  /\ stat.fails = SumOver(stat.fails_by_error, ErrorNames)
                /\ stat.fails <= stat.calls
                /\ ~child.started =>
                    /\ stat.calls = Cardinality(MainCallsOf(name))
                    /\ stat.fails = Cardinality(raised)
                    /\ \A e \in ErrorNames :
                          stat.fails_by_error[e] =
                              Cardinality({i \in raised : finished[i].error = e})
                    /\ stat.tuples = ReturnedTuples(name)

\* the events of the finished calls of the main thread, in the order the
\* calls finished
MainEvents ==
    LET main == SelectSeq(finished, LAMBDA c : c.proc = "main")
    IN  [i \in 1..Len(main) |-> main[i].event]

\* the events one listener received from calls of the main thread, in the
\* order it received them
ReceivedFromMain(listener) ==
    LET mine == SelectSeq(delivered,
                          LAMBDA d : d.listener = listener /\ d.thread = "main")
    IN  [i \in 1..Len(mine) |-> mine[i].event]

\* the events of one name that on_event has been called with: those of the
\* finished calls of the main thread and the datagrams the listener thread
\* has taken from the socket
HandledCalls(name) ==
    Cardinality({i \in MainFinished : finished[i].event.func_name = name})
    + Cardinality({i \in ChildFinished :
                      finished[i].sent /\ finished[i].event.func_name = name})
    - Cardinality({k \in 1..Len(_mp_socket) : _mp_socket[k].func_name = name})

Aggregated(events) ==
    [calls |-> Cardinality(events),
     tuples |-> SumOver([i \in events |-> finished[i].event.tuples], events),
     fails |-> Cardinality({i \in events : finished[i].event.error # ""}),
     fails_by_error |-> [e \in ErrorNames |->
                            Cardinality({i \in events : finished[i].event.error = e})]]

\* C20: the calls of a child process never change the child's own
\* stat_by_name; the events of a child started before
\* init_multiprocess_registry leave the statistics of the main process as
\* they are; the events of a child started after it are aggregated into
\* the statistics of the main process exactly as local events are (calls,
\* tuples, fails, fails_by_error), once the listener thread has handled
\* them.
C20_MultiprocessAggregation ==
    /\ \A name \in FuncNames : child.stat_by_name[name] = Stat
    /\ (Quiescent /\ _mp_socket = <<>>) =>
        \A name \in FuncNames :
            stat_by_name[name] =
                Aggregated({i \in MainFinished \cup
                                  {c \in ChildFinished : child._mp_port # 0} :
                               finished[i].event.func_name = name})

(***************************************************************************)
(* Properties of the rewriting, span by span.                              *)
(***************************************************************************)
\* the statement from position i on, read by SQL's lexical rule, with the
\* placeholder of running index idx (from 0) standing K times when
\* parameter idx is a container of K elements; literals and comments are
\* copied and consume no index
RECURSIVE PositionalRewrite(_, _, _, _)
PositionalRewrite(sql, i, idx, ps) ==
    IF i > Len(sql) THEN <<>>
    ELSE LET e == SqlSpanEnd(sql, i)
         IN  IF e # 0
             THEN SubSeq(sql, i, e) \o PositionalRewrite(sql, e + 1, idx, ps)
             ELSE IF sql[i] = "?"
             THEN (IF idx < Len(ps) /\ IsContainer(ps[idx + 1])
                   THEN QMarks(Len(ps[idx + 1].e)) ELSE <<"?">>)
                    \o PositionalRewrite(sql, i + 1, idx + 1, ps)
             ELSE <<sql[i]>> \o PositionalRewrite(sql, i + 1, idx, ps)

\* C21: the running placeholder index starts at 0 for each call and advances
\* by one for each ? in code spans, from left to right over the whole
\* statement and across the opaque spans in between; a ? in an opaque span
\* consumes no index; the ? of index i is replaced by K comma-separated ?
\* if and only if parameter i is a container of K elements, and is emitted
\* unchanged otherwise.
C21_PositionalIndex ==
    (Expanded /\ InParams.style = "pos") =>
        OutSql = PositionalRewrite(InSql, 1, 0, InParams.pos)

(***************************************************************************)
(* Calls whose mapping holds a parameter named like a synthetic            *)
(* placeholder: `a` and `__a_0`, in statements without literals and        *)
(* comments.                                                               *)
(***************************************************************************)
A0 == <<"_", "_", "a", "_", "0">>

SyntheticFrags == { <<":", "a">>, <<":">> \o A0, <<",">> }

SyntheticStatements == Statements(SyntheticFrags)

InitSynthetic ==
    /\ InitCall
    /\ mode = "sql_fetch_all"
    /\ default_sql = PyNone
    /\ \E sql \in SyntheticStatements, kwargs \in NamedParams({A, A0}, GoodValues) :
            fn = Fn0("query_and_params", PyStr(sql), <<>>, kwargs)
    /\ f_args = <<>>
    /\ f_kwargs = <<>>
    /\ driver = [fails |-> FALSE, rows |-> 1]

NextSynthetic == Resolve \/ Prepare \/ Execute \/ ReturnRows

SpecSynthetic == InitSynthetic /\ [][NextSynthetic]_vars

\* the statement from position i on, read by SQL's lexical rule, with every
\* token :name of a name bound to a container standing as its synthetic
\* run; everything else is copied
RECURSIVE NamedRewrite(_, _, _)
NamedRewrite(sql, i, d) ==
    IF i > Len(sql) THEN <<>>
    ELSE LET e == SqlSpanEnd(sql, i)
             last == IdentEnd(sql, i + 1)
             name == SubSeq(sql, i + 1, last)
         IN  IF e # 0
             THEN SubSeq(sql, i, e) \o NamedRewrite(sql, e + 1, d)
             ELSE IF sql[i] = ":" /\ name \in Keys(d) /\ IsContainer(DictGet(d, name))
             THEN SyntheticRun(name, Len(DictGet(d, name).e))
                    \o NamedRewrite(sql, last + 1, d)
             ELSE <<sql[i]>> \o NamedRewrite(sql, i + 1, d)

\* C22: every occurrence of an expanded name as an exact token in the code
\* of a statement is replaced by the same K synthetic placeholders,
\* whichever code span it stands in; the K values are stored once in the
\* mapping; and when several names are expanded, the replacement text of
\* one is not altered by the expansion of another.
C22_NamedMultiOccurrence ==
    (Expanded /\ InParams.style = "named") =>
        /\ OutSql = NamedRewrite(InSql, 1, InParams.named)
        /\ \A i \in 1..Len(InParams.named) :
                LET p == InParams.named[i]
                IN  IsContainer(p.v) => HoldsElements(OutParams.named, p.k, p.v)
        /\ \A i, j \in 1..Len(OutParams.named) :
                i # j => OutParams.named[i].k # OutParams.named[j].k

\* the number of entries the rewritten mapping ought to have
RECURSIVE ExpectedEntries(_)
ExpectedEntries(d) ==
    IF d = <<>> THEN 0
    ELSE (IF IsContainer(Head(d).v) THEN Len(Head(d).v.e) ELSE 1)
            + ExpectedEntries(Tail(d))

\* C28: the keys __name_i written for an expanded parameter are distinct
\* from every key written for another parameter of the call: the rewritten
\* mapping has as many entries as there are non-expanded names plus the sum
\* of the K of the expanded names, and every non-expanded parameter keeps
\* its own encoded value.
C28_SyntheticNamesDistinct ==
    (Expanded /\ InParams.style = "named") =>
        /\ Len(OutParams.named) = ExpectedEntries(InParams.named)
        /\ \A i \in 1..Len(InParams.named) :
                LET p == InParams.named[i]
                IN  IF IsContainer(p.v)
                    THEN HoldsElements(OutParams.named, p.k, p.v)
                    ELSE /\ p.k \in Keys(OutParams.named)
                         /\ DictGet(OutParams.named, p.k) = _encode_val(p.v)

\* the statement that was handed in, rewritten by SQL's lexical rule
Rewritten ==
    IF InParams.style = "pos"
    THEN PositionalRewrite(InSql, 1, 0, InParams.pos)
    ELSE NamedRewrite(InSql, 1, InParams.named)

\* the first characters of the literals and comments of a statement
SpanOpeners(sql) ==
    {sql[SqlSpans(sql, 1)[k][1]] : k \in 1..Len(SqlSpans(sql, 1))}

\* C23: a quoted literal runs from its opening single or double quote to the
\* next matching quote whatever lies between them (the other quote, --, ?,
\* :name or a line break), and the text after the closing quote is code
\* again: in a statement without comments the placeholders outside the
\* literals, and only those, are rewritten.
C23_LiteralSpans ==
    (Expanded /\ "-" \notin SpanOpeners(InSql)) => OutSql = Rewritten

\* C24: a line comment is opaque from its -- through the end of its line,
\* which ends at a newline or at the end of the statement: in a statement
\* without literals the placeholders outside the comments, and only those,
\* are rewritten.
C24_CommentSpans ==
    (Expanded /\ SpanOpeners(InSql) \subseteq {"-"}) => OutSql = Rewritten

\* the types of the values _encode_val hands to the driver
EncodedTypes == {"NoneType", "int", "float", "str", "bytes", "conform"}

\* every value of a parameter container is an encoded scalar
AllEncoded(ps) ==
    /\ \A i \in 1..Len(ps.pos) : ps.pos[i].t \in EncodedTypes
    /\ \A i \in 1..Len(ps.named) : ps.named[i].v.t \in EncodedTypes

\* one step of a decorated call keeps the order of the call
CallOrderStep ==
    /\ func_calls' # func_calls =>
            /\ func_calls = 0 /\ func_calls' = 1
            /\ execute_calls = 0 /\ execute_calls' = 0
    /\ execute_calls' # execute_calls =>
            /\ execute_calls = 0 /\ execute_calls' = 1
            /\ func_calls = 1
            /\ sql_n_params.kind = "ok"
            /\ sql_and_params.kind = "ok"
            /\ AllEncoded(sql_and_params.params)
            /\ outcome = NoOutcome
    /\ (outcome' # outcome /\ outcome'.kind = "return" /\ outcome'.n > 0) =>
            /\ execute_calls = 1 /\ execute_calls' = 1
            /\ pc = "executed"
    /\ pc' = "done" => func_calls' = 1 /\ execute_calls' <= 1

\* C25: in one decorated call the query function is invoked exactly once and
\* before any driver call; the driver's execute is invoked at most once,
\* after resolution, encoding and expansion have completed; the rows are
\* decoded only after execute returned.
C25_CallOrdering == [][CallOrderStep]_vars

\* a call with a container parameter invoked the query function and execute
\* once each and returned decoded rows
C25_Witness ==
    /\ Finished /\ outcome.kind = "return" /\ outcome.n > 0
    /\ func_calls = 1 /\ execute_calls = 1
    /\ \E i \in 1..Len(InParams.pos) : IsContainer(InParams.pos[i])
    /\ OutSql # InSql

(***************************************************************************)
(* set_default_db in two threads.  _conns is an attribute of the class:    *)
(* one list for every thread of the process.  The actions SetDefault,      *)
(* WithEnter, WithExit and CallDefaultDb are the steps of one thread, whose *)
(* open blocks are `blocks`; the actions below are the steps of another    *)
(* thread.                                                                 *)
(***************************************************************************)
MaxOtherDepth == 1  \* nested `with set_default_db(...)` blocks, other thread

\* the connections the other thread makes the default
OtherConnections == {"conn2"}

\* the `with` blocks the other thread has open: every __enter__ appends one
\* entry to _conns and every __exit__ pops one
OtherOpen == IF _conns = <<>> THEN 0 ELSE Len(_conns) - Len(blocks)

\* nm.set_default_db(conn) as a plain call in the other thread
OtherSetDefault ==
    /\ \E conn \in OtherConnections :
        _conns' = set_default_db__init__(_conns, conn).conns
    /\ UNCHANGED <<blocks, db_call>>
    /\ UNCHANGED <<call_vars, codec_vars, sa_vars, reg_vars>>

\* `with nm.set_default_db(conn):` is entered in the other thread
OtherWithEnter ==
    /\ OtherOpen < MaxOtherDepth
    /\ \E conn \in OtherConnections :
        LET made == set_default_db__init__(_conns, conn)
        IN  _conns' = set_default_db__enter__(made.conns, made.prev)
    /\ UNCHANGED <<blocks, db_call>>
    /\ UNCHANGED <<call_vars, codec_vars, sa_vars, reg_vars>>

\* the other thread leaves its innermost `with` block
OtherWithExit ==
    /\ OtherOpen > 0
    /\ _conns' = set_default_db__exit__(_conns)
    /\ UNCHANGED <<blocks, db_call>>
    /\ UNCHANGED <<call_vars, codec_vars, sa_vars, reg_vars>>

NextThreads ==
    SetDefault \/ WithEnter \/ WithExit \/ CallDefaultDb
        \/ OtherSetDefault \/ OtherWithEnter \/ OtherWithExit

SpecThreads == InitDefaultDb /\ [][NextThreads]_vars

\* C26: the connection a default_db-decorated call receives in one thread
\* is determined by that thread's own set_default_db calls and blocks
\* alone, whatever another thread sets, enters or leaves in between.
C26_ThreadIsolation ==
    db_call.kind # "" =>
        IF db_call.innermost \in Connections
        THEN db_call.kind = "called" /\ db_call.conn = db_call.innermost
        ELSE db_call.kind = "raise"

\* the number of ? in the code of a statement, read by SQL's lexical rule
CodePlaceholders(sql) ==
    LET view == CodeView(sql)
    IN  Cardinality({i \in 1..Len(view) : view[i] = "?"})

\* C27: when the statement handed in has one ? in its code per element of
\* the parameter sequence, the rewritten statement has as many ? in its code
\* as the rewritten tuple has values, and the values are, in order, the
\* encoded source values, each container standing as its encoded elements.
C27_PositionalCorrespondence ==
    (Expanded /\ InParams.style = "pos"
        /\ CodePlaceholders(InSql) = Len(InParams.pos)) =>
        /\ CodePlaceholders(OutSql) = Len(OutParams.pos)
        /\ OutParams.pos = FlatEncoded(InParams.pos)

\* ---------------------------------------------------------------------
\* One MetricsCollector over one decorated call (registry.py 139-167,
\* sql_fetch_all and sql_iterate in sqlite3/_sqlite3.py)
\* ---------------------------------------------------------------------

\* how a decorated call goes: cancel tells that the decorated function
\* returned None; rows is the number of rows of the query; fail_at is 0 when
\* execute raises, k when building the k-th row raises, and above rows when
\* nothing raises
Plans ==
    [func : FuncNames, shape : {"list", "generator"}, cancel : BOOLEAN,
     rows : 0..MaxRows, fail_at : 0..(MaxRows + 1), error : ErrorNames]

\* registry.on_event in one thread, without listeners
on_event(stats, event) ==
    LET counted == on_event_counts(stats, event)
    IN  IF event.error = "" THEN counted
        ELSE on_event_store(counted, event,
                 stats[event.func_name].fails_by_error[event.error])

\* finish without its test of start_time
finish_unguarded(c, exc_type) ==
    [c EXCEPT !.start_time = FALSE,
              !.events = Append(@, FuncCallEvent(c.plan.func, c.tuples,
                                                 exc_type))]

\* MetricsCollector.finish(exc_type); exc_type is "" for None.  start_time
\* is modelled by whether it is set
finish(c, exc_type) ==
    IF c.start_time
    THEN [c EXCEPT !.start_time = FALSE,
                   !.events = Append(@, FuncCallEvent(c.plan.func, c.tuples,
                                                      exc_type))]
    ELSE c

\* MetricsCollector(func).__enter__()
__enter__(plan) ==
    [pc |-> "body", plan |-> plan, start_time |-> TRUE, tuples |-> 0,
     yielded |-> 0, events |-> <<>>, again |-> FALSE]

__exit__(c, exc_type) == finish(c, exc_type)

\* the collector becomes c; the events it emitted in this step reach
\* registry.on_event
CollectorStep(c) ==
    /\ mc' = c
    /\ stat_by_name' =
         IF Len(c.events) > Len(mc.events)
         THEN on_event(stat_by_name, c.events[Len(c.events)])
         ELSE stat_by_name
    /\ UNCHANGED <<_event_listeners, delivered, environ, _mp_listener_started,
                   _mp_socket, threads, child, finished, mp>>
    /\ UNCHANGED <<call_vars, codec_vars, db_vars, sa_vars>>

\* the wrapper's `with MetricsCollector(self._func) as mc:` is entered (for
\* sql_iterate: at the first next() of the generator)
CollectorEnter ==
    /\ mc.pc = "idle"
    /\ \E plan \in Plans :
        /\ mc' = __enter__(plan)
        /\ UNCHANGED <<stat_by_name, _event_listeners, delivered, environ,
                       _mp_listener_started, _mp_socket, threads, child,
                       finished, mp>>
        /\ UNCHANGED <<call_vars, codec_vars, db_vars, sa_vars>>

\* sql_fetch_all: the body of the with statement and its __exit__
ListBody ==
    /\ mc.pc = "body" /\ mc.plan.shape = "list"
    /\ LET p == mc.plan
           c == IF p.cancel THEN __exit__(mc, "")
                ELSE IF p.fail_at <= p.rows THEN __exit__(mc, p.error)
                ELSE __exit__([mc EXCEPT !.tuples = p.rows], "")
       IN  CollectorStep([c EXCEPT !.pc = "done"])

\* sql_iterate: from the first next() to the first yield, or to the end of
\* the generator when it yields nothing
GeneratorStart ==
    /\ mc.pc = "body" /\ mc.plan.shape = "generator"
    /\ LET p == mc.plan
           first == finish(mc, "")        \* mc.finish(None) at the first row
       IN  IF p.cancel \/ (p.fail_at # 0 /\ p.rows = 0)
           THEN CollectorStep([__exit__(mc, "") EXCEPT !.pc = "done"])
           ELSE IF p.fail_at = 0
           THEN CollectorStep([__exit__(mc, p.error) EXCEPT !.pc = "done"])
           ELSE IF p.fail_at = 1
           THEN CollectorStep([__exit__(first, p.error) EXCEPT !.pc = "done"])
           ELSE CollectorStep([first EXCEPT !.pc = "suspended",
                                            !.yielded = 1])

\* next() on the suspended generator: the next row, the end of the rows, or
\* a row that cannot be built
GeneratorNext ==
    /\ mc.pc = "suspended"
    /\ LET p == mc.plan
           k == mc.yielded + 1
       IN  IF k > p.rows
           THEN CollectorStep([__exit__(mc, "") EXCEPT !.pc = "done"])
           ELSE IF p.fail_at = k
           THEN CollectorStep([__exit__(mc, p.error) EXCEPT !.pc = "done"])
           ELSE CollectorStep([mc EXCEPT !.yielded = k])

\* close() on the suspended generator, or its collection: GeneratorExit is
\* raised at the yield and leaves the with statement
GeneratorClose ==
    /\ mc.pc = "suspended"
    /\ CollectorStep([__exit__(mc, "GeneratorExit") EXCEPT !.pc = "done"])

\* one more finish(exc_type) on the collector after the call
FinishAgain ==
    /\ mc.pc = "done" /\ ~mc.again
    /\ \E exc_type \in {""} \cup ErrorNames :
        CollectorStep([finish(mc, exc_type) EXCEPT !.again = TRUE])

NextCollector ==
    \/ CollectorEnter \/ ListBody \/ GeneratorStart \/ GeneratorNext
    \/ GeneratorClose \/ FinishAgain

SpecCollector == InitRegistry /\ [][NextCollector]_vars

\* C29: a MetricsCollector emits at most one FuncCallEvent after its
\* __enter__: none while the body has produced nothing, exactly one from
\* the first row of a generator on and once the call has ended, and no
\* second one when the generator goes on, is exhausted, is closed or fails,
\* or when finish is called again; the registry counts the call as often as
\* an event was emitted
C29_OneEventPerCall ==
    mc.pc # "idle" =>
        /\ Len(mc.events) <= 1
        /\ mc.pc = "body" => mc.events = <<>>
        /\ mc.pc \in {"suspended", "done"} => Len(mc.events) = 1
        /\ mc.pc = "suspended" =>
               mc.events = <<FuncCallEvent(mc.plan.func, 0, "")>>
        /\ stat_by_name[mc.plan.func].calls = Len(mc.events)
        /\ mc.start_time = (mc.events = <<>>)

C29_Witness ==
    /\ mc.pc = "done" /\ mc.again
    /\ mc.plan.shape = "generator" /\ mc.yielded = 1 /\ mc.plan.fail_at = 2
    /\ Len(mc.events) = 1

\* ---------------------------------------------------------------------
\* Restarting the listener of the main process (registry.py 52-91)
\* ---------------------------------------------------------------------

MaxInits == 3       \* calls of init_multiprocess_registry

\* the sockets the registry has bound are numbered in the order of their
\* creation, and socket n is bound to port n; 0 stands for None
Newest == Len(mp.sockets)

\* a datagram sent to port p arrives while the socket bound to it is open
\* or a recvfrom that began before its close is still waiting on it
Reachable(p) ==
    /\ p \in 1..Len(mp.sockets)
    /\ \/ mp.sockets[p].open
       \/ \E k \in 1..Len(mp.listeners) :
            mp.listeners[k].pc = "blocked" /\ mp.listeners[k].sock = p

RestartStep(m) ==
    /\ mp' = m
    /\ UNCHANGED <<stat_by_name, _event_listeners, delivered, _mp_socket,
                   threads, child, finished, mc>>
    /\ UNCHANGED <<call_vars, codec_vars, db_vars, sa_vars>>

\* init_multiprocess_registry() in the main process: nothing but the
\* test while a listener is started; otherwise a new socket, its port
\* published, and a new listener thread
RestartInit ==
    /\ mp.inits < MaxInits
    /\ IF _mp_listener_started
       THEN /\ RestartStep([mp EXCEPT !.inits = @ + 1])
            /\ UNCHANGED <<environ, _mp_listener_started>>
       ELSE /\ RestartStep([mp EXCEPT
                    !.inits = @ + 1,
                    !.sockets = Append(@, [open |-> TRUE, stops |-> 0]),
                    !._mp_socket = Newest + 1,
                    !._mp_port = Newest + 1,
                    !.listeners = Append(@, [pc |-> "loop", sock |-> 0])])
            /\ environ' = Newest + 1
            /\ _mp_listener_started' = TRUE

\* close_multiprocess_registry(): "#stop#" is sent to _mp_port
RestartClose ==
    /\ _mp_listener_started
    /\ RestartStep([mp EXCEPT
            !.closes = @ + 1,
            !.sockets = IF Reachable(mp._mp_port)
                        THEN [@ EXCEPT ![mp._mp_port].stops = @ + 1]
                        ELSE @])
    /\ environ' = 0
    /\ _mp_listener_started' = FALSE

\* listener thread k at `while self._mp_socket is not None`
ListenerTest(k) ==
    /\ mp.listeners[k].pc = "loop"
    /\ RestartStep([mp EXCEPT !.listeners[k].pc =
            IF mp._mp_socket = 0 THEN "returned" ELSE "recvfrom"])
    /\ UNCHANGED <<environ, _mp_listener_started>>

\* listener thread k calls self._mp_socket.recvfrom(4096): AttributeError
\* on None and OSError on a closed socket end the thread
ListenerRecvfrom(k) ==
    /\ mp.listeners[k].pc = "recvfrom"
    /\ RestartStep(
        IF mp._mp_socket = 0 \/ ~mp.sockets[mp._mp_socket].open
        THEN [mp EXCEPT !.listeners[k].pc = "dead"]
        ELSE [mp EXCEPT !.listeners[k] =
                            [pc |-> "blocked", sock |-> mp._mp_socket]])
    /\ UNCHANGED <<environ, _mp_listener_started>>

\* the recvfrom of listener thread k returns "#stop#", and the thread calls
\* self._mp_socket.close(): on the socket the attribute holds now.  On
\* None the AttributeError is swallowed and the loop goes on
ListenerStop(k) ==
    /\ mp.listeners[k].pc = "blocked"
    /\ mp.sockets[mp.listeners[k].sock].stops > 0
    /\ LET got == [mp EXCEPT !.sockets[mp.listeners[k].sock].stops = @ - 1]
       IN  RestartStep(
            IF mp._mp_socket = 0
            THEN [got EXCEPT !.listeners[k] = [pc |-> "loop", sock |-> 0]]
            ELSE [got EXCEPT !.sockets[mp._mp_socket].open = FALSE,
                             !.listeners[k] = [pc |-> "clear", sock |-> 0]])
    /\ UNCHANGED <<environ, _mp_listener_started>>

\* listener thread k assigns self._mp_socket = None and returns
ListenerClear(k) ==
    /\ mp.listeners[k].pc = "clear"
    /\ RestartStep([mp EXCEPT !._mp_socket = 0,
                              !.listeners[k].pc = "returned"])
    /\ UNCHANGED <<environ, _mp_listener_started>>

\* the socket that the recvfrom of listener thread k waits on was closed
\* by another thread: the call may go on waiting, or fail with OSError
ListenerInterrupted(k) ==
    /\ mp.listeners[k].pc = "blocked"
    /\ ~mp.sockets[mp.listeners[k].sock].open
    /\ RestartStep([mp EXCEPT !.listeners[k].pc = "dead"])
    /\ UNCHANGED <<environ, _mp_listener_started>>

NextRestart ==
    \/ RestartInit
    \/ RestartClose
    \/ \E k \in 1..Len(mp.listeners) : ListenerTest(k)
    \/ \E k \in 1..Len(mp.listeners) : ListenerRecvfrom(k)
    \/ \E k \in 1..Len(mp.listeners) : ListenerStop(k)
    \/ \E k \in 1..Len(mp.listeners) : ListenerClear(k)
    \/ \E k \in 1..Len(mp.listeners) : ListenerInterrupted(k)

SpecRestart == InitRegistry /\ [][NextRestart]_vars

\* the listener threads that have not ended and that belong to the newest
\* socket: its own thread, and any thread receiving on it
LiveOnNewest ==
    {k \in 1..Len(mp.listeners) :
        /\ mp.listeners[k].pc \notin {"dead", "returned"}
        /\ k = Newest \/ mp.listeners[k].sock = Newest}

\* init_multiprocess_registry creates a socket and a thread only when no
\* listener is started
RestartNoOp ==
    /\ Len(mp.listeners) = Len(mp.sockets)
    /\ Len(mp.sockets) <= mp.closes + 1

\* C30: init_multiprocess_registry is a no-op while a listener is started,
\* and while a listener is started the registry holds the newest socket,
\* open and bound to the published port, with exactly one live listener
\* for it: the stop request of an earlier close never closes or clears it
C30_ListenerRestart ==
    /\ RestartNoOp
    /\ _mp_listener_started =>
        /\ Newest > 0
        /\ mp._mp_socket = Newest /\ mp._mp_port = Newest
        /\ environ = Newest
        /\ mp.sockets[Newest].open
        /\ Cardinality(LiveOnNewest) = 1

====
